---- MODULE Spec2Model ----
(***************************************************************************)
(* The record store of healthy_life_app: src/services/data_manager.py      *)
(* (DataManager) over the domain records of src/models/user_profile.py.    *)
(*                                                                         *)
(* The state is the data directory: the content of every file DataManager  *)
(* reads, writes or renames.  Every method of DataManager is an operator   *)
(* from a directory (and the set of I/O primitives that fail during the    *)
(* call) to the directory afterwards, the returned value and the exception *)
(* that leaves the method, if any.                                         *)
(***************************************************************************)
EXTENDS Integers, Sequences, FiniteSets, TLC

VARIABLES fs, last, focus, ncorrupt, pc, buf, now, held

vars == <<fs, last, focus, ncorrupt, pc, buf, now, held>>

(***************************************************************************)
(* Bounds of the model.                                                    *)
(***************************************************************************)
\* longest array a category file is let grow to
MaxLen == 3
\* the same, in the behaviours where I/O primitives fail
MaxLenFault == 2
\* number of times another program overwrites a category file
MaxCorrupt == 2
MaxClock == 3

\* the DataManager instances opened on the one data directory
Instances == {1, 2}

(***************************************************************************)
(* Files and their contents.                                               *)
(***************************************************************************)
WorkoutFile == "workouts.json"
NutritionFile == "nutrition.json"
current_user_file == "current_user.json"

CategoryFiles == {WorkoutFile, NutritionFile}

\* Path.with_suffix for the two suffixes the code uses
with_suffix(path, suffix) ==
    CASE path = WorkoutFile /\ suffix = ".backup" -> "workouts.backup"
      [] path = WorkoutFile /\ suffix = ".corrupt" -> "workouts.corrupt"
      [] path = NutritionFile /\ suffix = ".backup" -> "nutrition.backup"
      [] path = NutritionFile /\ suffix = ".corrupt" -> "nutrition.corrupt"

FileNames ==
    CategoryFiles \cup {current_user_file}
        \cup {with_suffix(p, s) : p \in CategoryFiles, s \in {".backup", ".corrupt"}}

\* What a file holds.  kind is
\*   "absent"      no such file
\*   "array"       a JSON array, items its entries
\*   "object"      the one JSON object of current_user.json, items = <<it>>
\*   "json_other"  JSON text that is no array (an object, a number, null)
\*   "blank"       no bytes, or white space only
\*   "malformed"   decodable text that is not JSON, bytes long
\*   "undecodable" bytes that are not UTF-8
\*   "merged"      the bytes of one writer followed by the tail of another's
\*                 longer text, bytes long in all: not JSON either
Content(kind, items, bytes) == [kind |-> kind, items |-> items, bytes |-> bytes]

Absent == Content("absent", <<>>, 0)
Array(items) == Content("array", items, 0)
Object(item) == Content("object", <<item>>, 0)
JsonOther == Content("json_other", <<>>, 0)
Blank == Content("blank", <<>>, 0)
Malformed(b) == Content("malformed", <<>>, b)
Undecodable == Content("undecodable", <<>>, 0)
Merged(bytes) == Content("merged", <<>>, bytes)

\* the contents another program leaves in a category file
BadBytes == {1, 2}
ForeignContents == {Malformed(b) : b \in BadBytes} \cup {Blank, JsonOther, Undecodable}

exists(dir, path) == dir[path].kind # "absent"

(***************************************************************************)
(* I/O primitives that can fail during one call.                           *)
(***************************************************************************)
Prims == {"read", "rename", "open_w", "write", "unlink"}
NoFault == {}
FaultSets == {F \in SUBSET Prims : Cardinality(F) <= 1} \cup {{"read", "open_w"}}

\* the exceptions of the model; NoExc: the call returned
NoExc == "none"

\* The result of a method or of a block of one: the directory afterwards, the
\* value returned, the exception that leaves it, and the exception its
\* except clause caught.
Result(dir, ret, exc) == [fs |-> dir, ret |-> ret, exc |-> exc, caught |-> NoExc]

\* open(path, 'w') followed by json.dump(value, f): open truncates the file,
\* the dump fills it; a failure in between leaves the file truncated.
write_json(dir, path, content, F) ==
    IF "open_w" \in F THEN Result(dir, FALSE, "OSError")
    ELSE IF "write" \in F THEN Result([dir EXCEPT ![path] = Blank], FALSE, "OSError")
    ELSE Result([dir EXCEPT ![path] = content], TRUE, NoExc)

\* file_path.rename(backup_path) inside try: ... except: pass
\* (a rename replaces an existing target)
rename_or_pass(dir, path, target, F) ==
    IF "rename" \in F THEN dir
    ELSE [dir EXCEPT ![target] = dir[path], ![path] = Absent]

(***************************************************************************)
(* Domain records (src/models/user_profile.py).                            *)
(***************************************************************************)
None == [type |-> "None"]

valid_intensities == {"low", "medium", "high"}

\* notes is the length of the text, NoNotes for None
NoNotes == -1

WorkoutRecord(date, exercise, duration, calories, intensity, notes) ==
    [type |-> "workout", date |-> date, exercise |-> exercise, duration |-> duration,
     calories |-> calories, intensity |-> intensity, notes |-> notes]

\* the blank strings of the model
BlankStrings == {"", " "}

\* the field validators of WorkoutRecord, run by WorkoutRecord(**record)
validate_workout(r) ==
    /\ r.type = "workout"
    /\ r.exercise \notin BlankStrings
    /\ r.duration > 0 /\ r.duration <= 600
    /\ r.calories >= 0 /\ r.calories <= 10000
    /\ r.intensity \in valid_intensities
    /\ (r.notes = NoNotes \/ r.notes <= 500)

\* serialize_datetime: datetime -> ISO-8601 text
isoformat(date) == <<"iso", date>>
\* pydantic's parse of an ISO-8601 text
fromisoformat(text) == text[2]

\* record.model_dump() of a WorkoutRecord: date goes through serialize_datetime
workout_model_dump(r) == [r EXCEPT !.date = isoformat(r.date)]
\* a parse that loses the notes
workout_parse_without_notes(e) ==
    [e EXCEPT !.date = fromisoformat(e.date), !.notes = NoNotes]

\* WorkoutRecord(**record) of a stored entry, when it validates
workout_parse(e) == [e EXCEPT !.date = fromisoformat(e.date)]
workout_parses(e) == validate_workout(e)

\* the workout records handed to save_workout: two valid ones, and one whose
\* duration was set to 0 after construction (assignment does not validate)
W1 == WorkoutRecord(1, "run", 30, 300, "medium", NoNotes)
W2 == WorkoutRecord(2, "swimming", 45, 400, "high", 10)
W3 == WorkoutRecord(3, "yoga", 0, 100, "low", NoNotes)
WorkoutInputs == {W1, W2, W3}

(***************************************************************************)
(* _load_json_safely                                                       *)
(***************************************************************************)
\* the parsed JSON value: a list, or any other JSON value
List(items) == [kind |-> "list", items |-> items]
NotAList == [kind |-> "other", items |-> <<>>]
default_value == List(<<>>)

load_json_safely(dir, path, F) ==
    IF ~exists(dir, path) THEN Result(dir, default_value, NoExc)
    ELSE IF "read" \in F THEN Result(dir, default_value, NoExc)
    ELSE
      CASE dir[path].kind = "undecodable" -> Result(dir, default_value, NoExc)
        [] dir[path].kind = "blank" -> Result(dir, default_value, NoExc)
        [] dir[path].kind = "array" -> Result(dir, List(dir[path].items), NoExc)
        [] dir[path].kind \in {"json_other", "object"} -> Result(dir, NotAList, NoExc)
        [] OTHER ->
            LET moved == rename_or_pass(dir, path, with_suffix(path, ".corrupt"), F)
                reset == write_json(moved, path, Array(<<>>), F)
            IN  IF reset.exc # NoExc THEN Result(reset.fs, default_value, reset.exc)
                ELSE Result(reset.fs, default_value, NoExc)

\* except OSError in place of except Exception
except_OSError(res, on_error) ==
    IF res.exc = "OSError"
    THEN [fs |-> res.fs, ret |-> on_error, exc |-> NoExc, caught |-> res.exc]
    ELSE res

\* try: ... except Exception as e: print(...); return <on_error>
except_Exception(res, on_error) ==
    IF res.exc # NoExc
    THEN [fs |-> res.fs, ret |-> on_error, exc |-> NoExc, caught |-> res.exc]
    ELSE res

(***************************************************************************)
(* Workouts                                                                *)
(***************************************************************************)
save_workout_body(dir, record, F) ==
    LET loaded == load_json_safely(dir, WorkoutFile, F) IN
    IF loaded.exc # NoExc THEN Result(loaded.fs, FALSE, loaded.exc)
    ELSE IF record.type = "None" THEN Result(loaded.fs, FALSE, "AttributeError")
    ELSE IF loaded.ret.kind # "list" THEN Result(loaded.fs, FALSE, "AttributeError")
    ELSE write_json(loaded.fs, WorkoutFile,
                    Array(Append(loaded.ret.items, workout_model_dump(record))), F)

save_workout(dir, record, F) == except_Exception(save_workout_body(dir, record, F), FALSE)

\* [WorkoutRecord(**record) for record in workouts_data]: one constructor that
\* raises ends the whole comprehension
load_workouts_body(dir, F) ==
    LET loaded == load_json_safely(dir, WorkoutFile, F) IN
    IF loaded.exc # NoExc THEN Result(loaded.fs, <<>>, loaded.exc)
    ELSE IF loaded.ret.kind # "list" THEN Result(loaded.fs, <<>>, "TypeError")
    ELSE LET data == loaded.ret.items IN
         IF \E k \in 1..Len(data) : ~workout_parses(data[k])
         THEN Result(loaded.fs, <<>>, "ValidationError")
         ELSE Result(loaded.fs, [k \in 1..Len(data) |-> workout_parse(data[k])], NoExc)

load_workouts(dir, F) == except_Exception(load_workouts_body(dir, F), <<>>)

\* list.pop() in place of list.pop(index): the last entry goes
pop_last(items, index) == SubSeq(items, 1, Len(items) - 1)

\* list.pop(index) for 0 <= index < len
pop(items, index) ==
    [k \in 1..(Len(items) - 1) |-> IF k <= index THEN items[k] ELSE items[k + 1]]

delete_body(dir, path, index, F) ==
    LET loaded == load_json_safely(dir, path, F) IN
    IF loaded.exc # NoExc THEN Result(loaded.fs, FALSE, loaded.exc)
    ELSE IF loaded.ret.kind # "list" THEN Result(loaded.fs, FALSE, "TypeError")
    ELSE IF 0 <= index /\ index < Len(loaded.ret.items)
         THEN write_json(loaded.fs, path, Array(pop(loaded.ret.items, index)), F)
         ELSE Result(loaded.fs, FALSE, NoExc)

delete_workout(dir, index, F) == except_Exception(delete_body(dir, WorkoutFile, index, F), FALSE)

(***************************************************************************)
(* Nutrition                                                               *)
(***************************************************************************)
valid_meal_types == {"breakfast", "lunch", "dinner", "snack", "late_snack"}

\* date of a record whose date was set to None after construction
NoDate == -1
\* datetime.now() while the model runs: every date of the model is in the past
Now == 9

\* a foods entry: a FoodItem, a dict, or (after assignment) a str
FoodItem(name, calories, protein, carbs, fat) ==
    [type |-> "FoodItem",
     fields |-> [name |-> name, calories |-> calories, protein |-> protein,
                 carbs |-> carbs, fat |-> fat]]
Dict(fields) == [type |-> "dict", fields |-> fields]
Str == [type |-> "str", fields |-> <<>>]

NutritionRecord(date, meal_type, foods, total_calories) ==
    [type |-> "nutrition", date |-> date, meal_type |-> meal_type, foods |-> foods,
     total_calories |-> total_calories]

\* NutritionRecord.model_dump: super().model_dump() turns every FoodItem into a
\* dict of its five fields and leaves a dict as it is; date goes through
\* serialize_datetime
food_dump(food) == IF food.type = "FoodItem" THEN Dict(food.fields) ELSE food

nutrition_model_dump(r) ==
    [r EXCEPT !.date = isoformat(r.date),
              !.foods = [k \in 1..Len(r.foods) |-> food_dump(r.foods[k])]]

\* the validators run by NutritionRecord(**record) on a stored entry
validate_nutrition(r) ==
    /\ r.type = "nutrition"
    /\ r.date # NoDate /\ r.date <= Now
    /\ r.meal_type \in valid_meal_types
    /\ r.total_calories >= 0
    /\ \A k \in 1..Len(r.foods) : r.foods[k].type \in {"FoodItem", "dict"}

nutrition_parses(e) == validate_nutrition([e EXCEPT !.date = fromisoformat(e.date)])
nutrition_parse(e) == [e EXCEPT !.date = fromisoformat(e.date)]

Rice == FoodItem("rice", 200, 4, 44, 1)
Egg == Dict([name |-> "egg", calories |-> 80])

\* the records handed to save_nutrition: a valid one, one with no foods (valid
\* at construction), and three changed after construction: date None, a str
\* among the foods, an unknown meal_type
N1 == NutritionRecord(1, "breakfast", <<Rice>>, 200)
N2 == NutritionRecord(2, "lunch", <<>>, 0)
N3 == NutritionRecord(NoDate, "dinner", <<Rice>>, 200)
N4 == NutritionRecord(4, "snack", <<Str>>, 10)
N5 == NutritionRecord(5, "brunch", <<Egg>>, 80)
\* a record NutritionRecord accepts, one of whose foods was given as a dict
\* that FoodItem refuses (no protein, carbs, fat) and Dict[str, Any] accepts
N6 == NutritionRecord(6, "dinner", <<Rice, Egg>>, 280)
NutritionInputs == {N1, N2, N3, N4, N5, N6}

\* save_nutrition without its check of the foods list
save_nutrition_unchecked_foods(dir, record, F) ==
    IF record.type = "None" THEN Result(dir, FALSE, NoExc)
    ELSE IF record.date = NoDate THEN Result(dir, FALSE, NoExc)
    ELSE
      LET loaded == load_json_safely(dir, NutritionFile, F) IN
      write_json(loaded.fs, NutritionFile,
                 Array(Append(loaded.ret.items, nutrition_model_dump(record))), F)

save_nutrition_body(dir, record, F) ==
    IF record.type = "None" THEN Result(dir, FALSE, NoExc)
    ELSE IF record.date = NoDate THEN Result(dir, FALSE, NoExc)
    ELSE IF Len(record.foods) = 0 THEN Result(dir, FALSE, NoExc)
    ELSE IF \E k \in 1..Len(record.foods) : record.foods[k].type = "str"
         THEN Result(dir, FALSE, NoExc)
    ELSE
      LET loaded == load_json_safely(dir, NutritionFile, F) IN
      IF loaded.exc # NoExc THEN Result(loaded.fs, FALSE, loaded.exc)
      ELSE IF loaded.ret.kind # "list" THEN Result(loaded.fs, FALSE, "AttributeError")
      ELSE write_json(loaded.fs, NutritionFile,
                      Array(Append(loaded.ret.items, nutrition_model_dump(record))), F)

save_nutrition(dir, record, F) ==
    except_Exception(save_nutrition_body(dir, record, F), FALSE)

load_nutrition_body(dir, F) ==
    LET loaded == load_json_safely(dir, NutritionFile, F) IN
    IF loaded.exc # NoExc THEN Result(loaded.fs, <<>>, loaded.exc)
    ELSE IF loaded.ret.kind # "list" THEN Result(loaded.fs, <<>>, "TypeError")
    ELSE LET data == loaded.ret.items IN
         IF \E k \in 1..Len(data) : ~nutrition_parses(data[k])
         THEN Result(loaded.fs, <<>>, "ValidationError")
         ELSE Result(loaded.fs, [k \in 1..Len(data) |-> nutrition_parse(data[k])], NoExc)

load_nutrition(dir, F) == except_Exception(load_nutrition_body(dir, F), <<>>)

delete_nutrition(dir, index, F) ==
    except_Exception(delete_body(dir, NutritionFile, index, F), FALSE)

(***************************************************************************)
(* Profile                                                                 *)
(***************************************************************************)
valid_genders == {"male", "female"}
valid_levels == {"sedentary", "light", "moderate", "active", "very_active"}
valid_goals == {"maintain", "lose", "gain", "build_muscle", "health"}

\* a UserProfile object; created_at and updated_at are clock readings, here
\* those of an object made when the clock read 0
UserProfile(name, age, gender, height, weight, activity_level, goal) ==
    [type |-> "profile", name |-> name, age |-> age, gender |-> gender,
     height |-> height, weight |-> weight, activity_level |-> activity_level,
     goal |-> goal, created_at |-> 0, updated_at |-> 0]

\* Field(default_factory=datetime.now) of created_at and updated_at, for an
\* object made when the clock reads t
default_factory(p, t) == [p EXCEPT !.created_at = t, !.updated_at = t]

\* what save_profile writes: profile.model_dump(), whose two datetimes are
\* serialized by isoformat, with updated_at replaced by the time of the save
profile_data(p, t) ==
    [p EXCEPT !.created_at = isoformat(p.created_at), !.updated_at = isoformat(t)]

\* UserProfile(**data) for data that passes the validators: the two
\* timestamps are parsed from their text
profile_parse(data) ==
    [data EXCEPT !.created_at = fromisoformat(data.created_at),
                 !.updated_at = fromisoformat(data.updated_at)]

\* the field validators of UserProfile, run by UserProfile(**data)
validate_profile(p) ==
    /\ p.type = "profile"
    /\ p.name \notin BlankStrings
    /\ p.age > 0 /\ p.age <= 150
    /\ p.gender \in valid_genders
    /\ p.height >= 50 /\ p.height <= 300
    /\ p.weight > 0 /\ p.weight <= 500
    /\ p.activity_level \in valid_levels
    /\ p.goal \in valid_goals

\* the profiles handed to save_profile: two valid ones, and ones whose name or
\* age was changed after construction
P1 == UserProfile("taro", 30, "male", 175, 70, "moderate", "maintain")
P2 == UserProfile("hanako", 25, "female", 160, 50, "light", "lose")
PEmptyName == [P1 EXCEPT !.name = ""]
PBlankName == [P1 EXCEPT !.name = " "]
PNegativeAge == [P1 EXCEPT !.age = -5]
PZeroAge == [P1 EXCEPT !.age = 0]
ProfileInputs == {P1, P2, PEmptyName, PBlankName, PNegativeAge, PZeroAge}

\* save_profile without its check of the age
save_profile_unchecked_age(dir, profile, F) ==
    IF profile.type = "None" THEN Result(dir, FALSE, "AttributeError")
    ELSE IF profile.name \in BlankStrings THEN Result(dir, FALSE, NoExc)
    ELSE write_json(dir, current_user_file, Object(profile_data(profile, now)), F)

save_profile_body(dir, profile, F) ==
    IF profile.type = "None" THEN Result(dir, FALSE, "AttributeError")
    ELSE IF profile.name \in BlankStrings THEN Result(dir, FALSE, NoExc)
    ELSE IF profile.age <= 0 THEN Result(dir, FALSE, NoExc)
    ELSE write_json(dir, current_user_file, Object(profile_data(profile, now)), F)

save_profile(dir, profile, F) == except_Exception(save_profile_body(dir, profile, F), FALSE)

delete_profile_body(dir, F) ==
    IF exists(dir, current_user_file)
    THEN IF "unlink" \in F THEN Result(dir, FALSE, "OSError")
         ELSE Result([dir EXCEPT ![current_user_file] = Absent], TRUE, NoExc)
    ELSE Result(dir, FALSE, NoExc)

delete_profile(dir, F) == except_Exception(delete_profile_body(dir, F), FALSE)

\* load_profile without the validators of UserProfile
load_profile_unvalidated(dir, F) ==
    IF ~exists(dir, current_user_file) THEN Result(dir, None, NoExc)
    ELSE IF dir[current_user_file].kind = "object"
         THEN Result(dir, profile_parse(dir[current_user_file].items[1]), NoExc)
         ELSE Result(dir, None, "ValueError")

load_profile_body(dir, F) ==
    IF ~exists(dir, current_user_file) THEN Result(dir, None, NoExc)
    ELSE IF "read" \in F THEN Result(dir, None, "OSError")
    ELSE
      CASE dir[current_user_file].kind = "object" ->
             LET data == dir[current_user_file].items[1] IN
             IF validate_profile(data) THEN Result(dir, profile_parse(data), NoExc)
             ELSE Result(dir, None, "ValidationError")
        [] dir[current_user_file].kind \in {"array", "json_other"} ->
             Result(dir, None, "TypeError")
        [] OTHER -> Result(dir, None, "ValueError")

load_profile(dir, F) == except_Exception(load_profile_body(dir, F), None)

(***************************************************************************)
(* Initialization and clearing of the category files                       *)
(***************************************************************************)
\* one round of the loop of _ensure_json_files
\* an initialization that writes the empty collection whatever the file holds
ensure_json_file_reset(dir, path, F) == write_json(dir, path, Array(<<>>), F)

ensure_json_file(dir, path, F) ==
    IF ~exists(dir, path) THEN write_json(dir, path, Array(<<>>), F)
    ELSE IF "read" \in F THEN Result(dir, FALSE, "OSError")
    ELSE IF dir[path].kind \in {"array", "json_other", "object"} THEN Result(dir, TRUE, NoExc)
    ELSE write_json(rename_or_pass(dir, path, with_suffix(path, ".backup"), F),
                    path, Array(<<>>), F)

\* the loop: workouts.json, then nutrition.json; an exception ends it
ensure_json_files(dir, F) ==
    LET first == ensure_json_file(dir, WorkoutFile, F) IN
    IF first.exc # NoExc THEN first ELSE ensure_json_file(first.fs, NutritionFile, F)

clear_file(dir, path, F) ==
    IF exists(dir, path) THEN write_json(dir, path, Array(<<>>), F)
    ELSE Result(dir, TRUE, NoExc)

clear_all_data(dir, F) ==
    LET first == clear_file(dir, WorkoutFile, F) IN
    IF first.exc # NoExc THEN first ELSE clear_file(first.fs, NutritionFile, F)

(***************************************************************************)
(* The state machine.  fs is the data directory; last describes the call   *)
(* that made the latest step: its method, arguments, return value (ok for  *)
(* a boolean, out for what a load returns), the exception that left the    *)
(* method and the one its except clause caught.  A DataManager holds       *)
(* nothing but its paths, so the instance that made a call leaves no       *)
(* trace.                                                                  *)
(*                                                                         *)
(* No method reads one of workouts.json, nutrition.json, current_user.json *)
(* to write another, so a behaviour of the model works on one of the three *)
(* (focus) and leaves the other two as the constructor made them.          *)
(***************************************************************************)
Call(op, path, rec, idx, ok, out, exc, caught) ==
    [op |-> op, path |-> path, rec |-> rec, idx |-> idx,
     ok |-> ok, out |-> out, raised |-> exc, caught |-> caught]

EmptyDir == [f \in FileNames |-> Absent]

Idle == [i \in Instances |-> "idle"]
\* what a save holds between its steps: the file it writes, the content it
\* computed for it, the record it was given
Job(path, content, rec) == [path |-> path, content |-> content, rec |-> rec]
NoBuf == [i \in Instances |-> Job("", Absent, None)]

\* the first DataManager(data_dir) on a new, empty directory
Init ==
    LET res == ensure_json_files(EmptyDir, NoFault) IN
    /\ fs = res.fs
    /\ last = Call("__init__", "", None, 0, res.ret, <<>>, res.exc, NoExc)
    /\ focus \in CategoryFiles \cup {current_user_file}
    /\ ncorrupt = 0
    /\ pc = Idle
    /\ buf = NoBuf
    /\ now = 0
    /\ held = None

Sequential == pc = Idle

\* a method that returns a boolean (or nothing) takes a step
Returns(op, i, path, rec, idx, res, F) ==
    /\ fs' = res.fs
    /\ last' = Call(op, path, rec, idx, res.ret, <<>>, res.exc, res.caught)
    /\ UNCHANGED <<focus, ncorrupt, pc, buf, now, held>>

\* a method that returns the loaded records takes a step
Loads(op, i, path, res, F) ==
    /\ fs' = res.fs
    /\ last' = Call(op, path, None, 0, TRUE, res.ret, res.exc, res.caught)
    /\ UNCHANGED <<focus, ncorrupt, pc, buf, now, held>>

\* the model lets a category file grow to max entries
Room(path, max) == fs[path].kind = "array" => Len(fs[path].items) < max

Indexes(max) == -1..max

Construct(i, F) ==
    /\ Sequential
    /\ Returns("__init__", i, "", None, 0, ensure_json_files(fs, F), F)

SaveProfile(i, p, F) ==
    /\ Sequential
    /\ focus = current_user_file
    /\ Returns("save_profile", i, current_user_file, p, 0, save_profile(fs, p, F), F)

DeleteProfile(i, F) ==
    /\ Sequential
    /\ focus = current_user_file
    /\ Returns("delete_profile", i, current_user_file, None, 0, delete_profile(fs, F), F)

LoadProfile(i, F) ==
    /\ Sequential
    /\ focus = current_user_file
    /\ LET res == load_profile(fs, F) IN
       Loads("load_profile", i, current_user_file, [res EXCEPT !.ret = <<res.ret>>], F)

SaveWorkout(i, r, F, max) ==
    /\ Sequential
    /\ focus = WorkoutFile
    /\ Room(WorkoutFile, max)
    /\ Returns("save_workout", i, WorkoutFile, r, 0, save_workout(fs, r, F), F)

LoadWorkouts(i, F) ==
    /\ Sequential
    /\ focus = WorkoutFile
    /\ Loads("load_workouts", i, WorkoutFile, load_workouts(fs, F), F)

DeleteWorkout(i, index, F) ==
    /\ Sequential
    /\ focus = WorkoutFile
    /\ Returns("delete_workout", i, WorkoutFile, None, index,
               delete_workout(fs, index, F), F)

SaveNutrition(i, r, F, max) ==
    /\ Sequential
    /\ focus = NutritionFile
    /\ Room(NutritionFile, max)
    /\ Returns("save_nutrition", i, NutritionFile, r, 0, save_nutrition(fs, r, F), F)

LoadNutrition(i, F) ==
    /\ Sequential
    /\ focus = NutritionFile
    /\ Loads("load_nutrition", i, NutritionFile, load_nutrition(fs, F), F)

DeleteNutrition(i, index, F) ==
    /\ Sequential
    /\ focus = NutritionFile
    /\ Returns("delete_nutrition", i, NutritionFile, None, index,
               delete_nutrition(fs, index, F), F)

ClearAllData(i, F) ==
    /\ Sequential
    /\ Returns("clear_all_data", i, "", None, 0, clear_all_data(fs, F), F)

\* another program overwrites a category file
Corrupt(path, content) ==
    /\ Sequential
    /\ focus = path
    /\ ncorrupt < MaxCorrupt
    /\ fs' = [fs EXCEPT ![path] = content]
    /\ last' = Call("corrupt", path, None, 0, TRUE, <<>>, NoExc, NoExc)
    /\ ncorrupt' = ncorrupt + 1
    /\ UNCHANGED <<focus, pc, buf, now, held>>

\* the model's content of current_user.json that is an object but no profile
\* UserProfile accepts
PBadGender == [P1 EXCEPT !.gender = "other"]
ForeignProfiles == ForeignContents \cup {Object(profile_data(PBadGender, 0))}

\* another program overwrites current_user.json
CorruptProfile(content) ==
    /\ Sequential
    /\ focus = current_user_file
    /\ ncorrupt < MaxCorrupt
    /\ fs' = [fs EXCEPT ![current_user_file] = content]
    /\ last' = Call("corrupt", current_user_file, None, 0, TRUE, <<>>, NoExc, NoExc)
    /\ ncorrupt' = ncorrupt + 1
    /\ UNCHANGED <<focus, pc, buf, now, held>>

Calls(F, max) ==
    \E i \in Instances :
        \/ Construct(i, F)
        \/ \E p \in ProfileInputs \cup {None} : SaveProfile(i, p, F)
        \/ DeleteProfile(i, F)
        \/ LoadProfile(i, F)
        \/ \E r \in WorkoutInputs : SaveWorkout(i, r, F, max)
        \/ LoadWorkouts(i, F)
        \/ \E index \in Indexes(max) : DeleteWorkout(i, index, F)
        \/ \E r \in NutritionInputs \cup {None} : SaveNutrition(i, r, F, max)
        \/ LoadNutrition(i, F)
        \/ \E index \in Indexes(max) : DeleteNutrition(i, index, F)

Clearing == \E i \in Instances : ClearAllData(i, NoFault)

Corruption ==
    \/ \E path \in CategoryFiles, content \in ForeignContents : Corrupt(path, content)
    \/ \E content \in ForeignProfiles : CorruptProfile(content)

\* Every call completes before the next starts, and no I/O primitive fails.
Next == Calls(NoFault, MaxLen) \/ Clearing \/ Corruption

Spec == Init /\ [][Next]_vars

\* The same calls, each with some I/O primitives failing (clear_all_data, the
\* debugging aid, runs without a failure).
NextFault == (\E F \in FaultSets : Calls(F, MaxLenFault)) \/ Clearing \/ Corruption

SpecFault == Init /\ [][NextFault]_vars

(***************************************************************************)
(* Saves of two instances running at once.  A save is three steps: it      *)
(* reads the file and computes the new content; `with open(path, 'w')`     *)
(* truncates the file; leaving the with block flushes the text json.dump   *)
(* buffered, which the operating system writes from offset 0 of the file   *)
(* as it then is.  Nothing orders the steps of two instances.              *)
(***************************************************************************)
Digits(n) ==
    IF n < 0 THEN 2 ELSE IF n < 10 THEN 1 ELSE IF n < 100 THEN 2
    ELSE IF n < 1000 THEN 3 ELSE 4

\* the length of the text json.dump writes for a record: the lengths of its
\* values (the keys and the punctuation are the same for every record of a
\* kind, and are left out)
json_len(e) ==
    CASE e.type = "workout" ->
           Len(e.exercise) + Digits(e.duration) + Digits(e.calories)
             + Len(e.intensity) + (IF e.notes = NoNotes THEN 4 ELSE e.notes + 2)
      [] e.type = "profile" ->
           Len(e.name) + Digits(e.age) + Len(e.gender) + Digits(e.height)
             + Digits(e.weight) + Len(e.activity_level) + Len(e.goal)
      [] OTHER -> 0

RECURSIVE sum_len(_)
sum_len(items) == IF items = <<>> THEN 0 ELSE json_len(Head(items)) + sum_len(Tail(items))

\* the length of a file in bytes
size(content) ==
    CASE content.kind \in {"array", "object"} -> sum_len(content.items)
      [] content.kind \in {"malformed", "merged"} -> content.bytes
      [] OTHER -> 0

\* the bytes of text written from offset 0 of a file holding old
written_over(text, old) ==
    IF size(old) > size(text) THEN Merged(size(old)) ELSE text

\* save_workout up to `with open`: the read and the append
ReadForSaveWorkout(i, r) ==
    /\ focus = WorkoutFile
    /\ pc[i] = "idle"
    /\ Room(WorkoutFile, MaxLen)
    /\ LET loaded == load_json_safely(fs, WorkoutFile, NoFault) IN
       /\ loaded.ret.kind = "list"
       /\ fs' = loaded.fs
       /\ buf' = [buf EXCEPT ![i] =
                     Job(WorkoutFile,
                         Array(Append(loaded.ret.items, workout_model_dump(r))), r)]
    /\ pc' = [pc EXCEPT ![i] = "read"]
    /\ UNCHANGED <<last, focus, ncorrupt, now, held>>

\* save_profile up to `with open`: the checks and model_dump
CheckForSaveProfile(i, p) ==
    /\ focus = current_user_file
    /\ pc[i] = "idle"
    /\ ~(p.name \in BlankStrings) /\ ~(p.age <= 0)
    /\ buf' = [buf EXCEPT ![i] = Job(current_user_file, Object(profile_data(p, now)), p)]
    /\ pc' = [pc EXCEPT ![i] = "read"]
    /\ UNCHANGED <<fs, last, focus, ncorrupt, now, held>>

\* open(path, 'w')
OpenForWriting(i) ==
    /\ pc[i] = "read"
    /\ fs' = [fs EXCEPT ![buf[i].path] = Blank]
    /\ pc' = [pc EXCEPT ![i] = "opened"]
    /\ UNCHANGED <<last, focus, ncorrupt, buf, now, held>>

\* the end of the with block, and return True
CloseWritten(i) ==
    /\ pc[i] = "opened"
    /\ fs' = [fs EXCEPT ![buf[i].path] = written_over(buf[i].content, fs[buf[i].path])]
    /\ pc' = [pc EXCEPT ![i] = "idle"]
    /\ last' = Call(IF buf[i].path = WorkoutFile THEN "save_workout" ELSE "save_profile",
                    buf[i].path, buf[i].rec, 0, TRUE, <<>>, NoExc, NoExc)
    /\ buf' = [buf EXCEPT ![i] = Job("", Absent, None)]
    /\ UNCHANGED <<focus, ncorrupt, now, held>>

NextConcurrent ==
    \E i \in Instances :
        \/ \E r \in {W1, W2} : ReadForSaveWorkout(i, r)
        \/ \E p \in {P1, P2} : CheckForSaveProfile(i, p)
        \/ OpenForWriting(i)
        \/ CloseWritten(i)
        \/ LoadWorkouts(i, NoFault)
        \/ LoadProfile(i, NoFault)

SpecConcurrent == Init /\ [][NextConcurrent]_vars

(***************************************************************************)
(* Properties                                                              *)
(***************************************************************************)
(***************************************************************************)
(* The life of a profile: the caller makes a UserProfile object (held),    *)
(* assigns to its fields, and saves it, while the clock (now) advances.    *)
(***************************************************************************)
\* datetime.now() has advanced
Tick ==
    /\ Sequential
    /\ now < MaxClock
    /\ now' = now + 1
    /\ UNCHANGED <<fs, last, focus, ncorrupt, pc, buf, held>>

\* profile = UserProfile(name=..., ...): the two timestamps default to now
NewProfile(p) ==
    /\ Sequential
    /\ held' = default_factory(p, now)
    /\ last' = Call("UserProfile", "", held', 0, TRUE, <<>>, NoExc, NoExc)
    /\ UNCHANGED <<fs, focus, ncorrupt, pc, buf, now>>

\* the assignments the caller makes to fields of the object it holds
Assignments == {<<"age", 31>>, <<"age", -5>>, <<"age", 200>>, <<"name", "">>}

\* profile.<field> = value: the model runs no validator and no hook on
\* assignment, only the field changes
SetAttr(field, value) ==
    /\ Sequential
    /\ held # None
    /\ held' = [held EXCEPT ![field] = value]
    /\ last' = Call("setattr", "", held', 0, TRUE, <<>>, NoExc, NoExc)
    /\ UNCHANGED <<fs, focus, ncorrupt, pc, buf, now>>

NextProfile ==
    \/ Tick
    \/ \E p \in {P1, P2} : NewProfile(p)
    \/ \E a \in Assignments : SetAttr(a[1], a[2])
    \/ \E i \in Instances :
          \/ SaveProfile(i, held, NoFault)
          \/ LoadProfile(i, NoFault)
          \/ DeleteProfile(i, NoFault)
    \/ \E content \in ForeignProfiles : CorruptProfile(content)

\* the store after construction, in a behaviour that works on the profile
InitProfile == Init /\ focus = current_user_file

SpecProfile == InitProfile /\ [][NextProfile]_vars

(***************************************************************************)
(* Construction of the records from keyword arguments.  pydantic first     *)
(* converts each argument to the type of its field (model_config =         *)
(* ConfigDict(): the lax mode), then runs the field validators on the      *)
(* converted value.  An argument for a numeric field is an int, a float    *)
(* with an integral value, a float half above an integer, the decimal text *)
(* of an integer, some other text, or the float nan.                       *)
(***************************************************************************)
IntVal(n) == [t |-> "int", v |-> n]
FloatVal(n) == [t |-> "float", v |-> n]
HalfVal(n) == [t |-> "half", v |-> n]
NumStrVal(n) == [t |-> "numstr", v |-> n]
TextVal == [t |-> "text", v |-> 0]
NaNVal == [t |-> "nan", v |-> 0]

\* a converted number: nan, or twice its value (so that n + 0.5 is whole)
Number(n) == [ok |-> TRUE, nan |-> FALSE, twice |-> n]
NotANumber == [ok |-> TRUE, nan |-> TRUE, twice |-> 0]
Refused == [ok |-> FALSE, nan |-> FALSE, twice |-> 0]

\* the conversion for a field annotated int
as_int(x) ==
    IF x.t \in {"int", "float", "numstr"} THEN Number(2 * x.v) ELSE Refused

\* the conversion for a field annotated float
as_float(x) ==
    CASE x.t \in {"int", "float", "numstr"} -> Number(2 * x.v)
      [] x.t = "half" -> Number(2 * x.v + 1)
      [] x.t = "nan" -> NotANumber
      [] OTHER -> Refused

\* Python's comparisons of a converted number with an integer: every
\* comparison with nan is False
lt(a, n) == ~a.nan /\ a.twice < 2 * n
le(a, n) == ~a.nan /\ a.twice <= 2 * n
gt(a, n) == ~a.nan /\ a.twice > 2 * n

validate_name(v) == v \notin BlankStrings
validate_age(v) == ~le(v, 0) /\ ~gt(v, 150)
validate_gender(v) == v \in valid_genders
validate_height(v) == ~le(v, 0) /\ ~(lt(v, 50) \/ gt(v, 300))
validate_weight(v) == ~le(v, 0) /\ ~gt(v, 500)
validate_activity_level(v) == v \in valid_levels
validate_goal(v) == v \in valid_goals

\* UserProfile(**data) returns an object (TRUE) or raises ValidationError
new_UserProfile(data) ==
    /\ validate_name(data.name)
    /\ as_int(data.age).ok /\ validate_age(as_int(data.age))
    /\ validate_gender(data.gender)
    /\ as_float(data.height).ok /\ validate_height(as_float(data.height))
    /\ as_float(data.weight).ok /\ validate_weight(as_float(data.weight))
    /\ validate_activity_level(data.activity_level)
    /\ validate_goal(data.goal)

\* the keyword arguments tried: every field at and around its limits
ProfileData ==
    [name : {"taro", "", " "},
     age : {IntVal(0), IntVal(1), IntVal(150), IntVal(151), FloatVal(30), HalfVal(30),
            NumStrVal(30), TextVal},
     gender : {"male", "other"},
     height : {IntVal(49), IntVal(50), FloatVal(300), HalfVal(300), NumStrVal(175),
               NaNVal},
     weight : {IntVal(0), HalfVal(0), IntVal(500), HalfVal(500), NaNVal},
     activity_level : {"moderate", "lazy"},
     goal : {"maintain", "win"}]

\* the object UserProfile(**data) returns: the numeric fields converted
UserProfile_object(data) ==
    [data EXCEPT !.age = as_int(data.age), !.height = as_float(data.height),
                 !.weight = as_float(data.weight)]

\* a constructor called with keyword arguments returns the object or raises
\* (a behaviour makes one call: the constructors keep no state)
Constructs(class, data, ok, object) ==
    /\ Sequential
    /\ last.op = "__init__"
    /\ last' = Call(class, "", data, 0, ok, IF ok THEN <<object>> ELSE <<>>,
                    IF ok THEN NoExc ELSE "ValidationError", NoExc)
    /\ UNCHANGED <<fs, focus, ncorrupt, pc, buf, now, held>>

ConstructUserProfile(data) ==
    Constructs("UserProfile(**data)", data, new_UserProfile(data), UserProfile_object(data))

validate_exercise(v) == v \notin BlankStrings
validate_duration(v) == ~le(v, 0) /\ ~gt(v, 600)
validate_calories(v) == ~lt(v, 0) /\ ~gt(v, 10000)
validate_intensity(v) == v \in valid_intensities
validate_notes(v) == ~(v # NoNotes /\ v > 500)

\* WorkoutRecord(**data) returns an object (TRUE) or raises ValidationError;
\* no validator looks at the date
new_WorkoutRecord(data) ==
    /\ validate_exercise(data.exercise)
    /\ as_int(data.duration).ok /\ validate_duration(as_int(data.duration))
    /\ as_int(data.calories).ok /\ validate_calories(as_int(data.calories))
    /\ validate_intensity(data.intensity)
    /\ validate_notes(data.notes)

WorkoutRecord_object(data) ==
    [data EXCEPT !.duration = as_int(data.duration), !.calories = as_int(data.calories)]

\* the keyword arguments tried; the dates are one before and one after Now
WorkoutData ==
    [date : {1, Now + 1},
     exercise : {"run", "", " "},
     duration : {IntVal(0), IntVal(1), IntVal(600), IntVal(601), HalfVal(30),
                 NumStrVal(30), TextVal},
     calories : {IntVal(-1), IntVal(0), IntVal(10000), IntVal(10001), NumStrVal(300)},
     intensity : {"medium", "extreme"},
     notes : {NoNotes, 0, 500, 501}]

ConstructWorkoutRecord(data) ==
    Constructs("WorkoutRecord(**data)", data, new_WorkoutRecord(data),
               WorkoutRecord_object(data))

\* the fields of a FoodItem
FoodItemFields == {"name", "calories", "protein", "carbs", "fat"}

\* FoodItem(**fields) returns an object (TRUE) or raises ValidationError
new_FoodItem(fields) ==
    /\ DOMAIN fields = FoodItemFields
    /\ fields.name \notin BlankStrings
    /\ \A key \in FoodItemFields \ {"name"} : fields[key] >= 0

\* one entry of foods: Union[FoodItem, Dict[str, Any]].  A FoodItem stays; a
\* dict that FoodItem accepts becomes a FoodItem; any other dict is accepted
\* by Dict[str, Any] as it is.
union_food(food) ==
    IF food.type = "dict" /\ new_FoodItem(food.fields) THEN
        [type |-> "FoodItem", fields |-> food.fields]
    ELSE food

validate_date(v) == ~(v > Now)
validate_meal_type(v) == v \notin BlankStrings /\ v \in valid_meal_types
validate_total_calories(v) == ~lt(v, 0)

\* NutritionRecord(**data) returns an object (TRUE) or raises ValidationError
new_NutritionRecord(data) ==
    /\ validate_date(data.date)
    /\ validate_meal_type(data.meal_type)
    /\ as_float(data.total_calories).ok
    /\ validate_total_calories(as_float(data.total_calories))

NutritionRecord_object(data) ==
    [data EXCEPT !.total_calories = as_float(data.total_calories),
                 !.foods = [k \in 1..Len(data.foods) |-> union_food(data.foods[k])]]

\* a dict with the five keys of a FoodItem whose values FoodItem refuses
Spoiled == Dict([name |-> "", calories |-> -5, protein |-> 0, carbs |-> 0, fat |-> 0])

NutritionData ==
    [date : {1, Now, Now + 1},
     meal_type : {"dinner", "brunch", ""},
     foods : {<<>>, <<Rice>>, <<Dict(Rice.fields)>>, <<Rice, Egg>>, <<Spoiled>>},
     total_calories : {IntVal(-1), IntVal(0), HalfVal(200), NaNVal}]

ConstructNutritionRecord(data) ==
    Constructs("NutritionRecord(**data)", data, new_NutritionRecord(data),
               NutritionRecord_object(data))

NextConstruct ==
    \/ \E data \in ProfileData : ConstructUserProfile(data)
    \/ \E data \in WorkoutData : ConstructWorkoutRecord(data)
    \/ \E data \in NutritionData : ConstructNutritionRecord(data)

SpecConstruct == InitProfile /\ [][NextConstruct]_vars

(***************************************************************************)
(* calculate_bmi (src/utils/helpers.py).  The arguments are ints, a        *)
(* positive float so small that its square is 0.0, a positive float so     *)
(* large that its square exceeds the floats, or a value that is no number. *)
(* A quotient is kept exact, as numerator and denominator.                 *)
(***************************************************************************)
TinyVal == [t |-> "tiny", v |-> 0]
HugeVal == [t |-> "huge", v |-> 0]

Quotient(num, den) == [num |-> num, den |-> den]

\* what a call gives: the value returned or the exception raised
Returned(value) == [value |-> value, exc |-> NoExc]
Raised(exc) == [value |-> Quotient(0, 1), exc |-> exc]

\* calculate_bmi with a result that is never below zero
calculate_bmi_clamped(height, weight) ==
    IF height.t = "text" \/ weight.t = "text" THEN Raised("TypeError")
    ELSE IF height.t = "int" /\ height.v <= 0 THEN Raised("ZeroDivisionError")
    ELSE IF height.t = "huge" THEN Raised("OverflowError")
    ELSE IF height.t = "tiny" THEN Raised("ZeroDivisionError")
    ELSE IF weight.v < 0 THEN Returned(Quotient(0, 1))
    ELSE Returned(Quotient(weight.v * 100 * 100, height.v * height.v))

calculate_bmi(height, weight) ==
    IF height.t = "text" \/ weight.t = "text" THEN Raised("TypeError")
    ELSE IF height.t = "int" /\ height.v <= 0 THEN Raised("ZeroDivisionError")
    \* height_m ** 2 is out of range
    ELSE IF height.t = "huge" THEN Raised("OverflowError")
    \* height_m ** 2 is 0.0: float division by zero
    ELSE IF height.t = "tiny" THEN Raised("ZeroDivisionError")
    ELSE
      LET height_m == Quotient(height.v, 100)
          squared == Quotient(height_m.num * height_m.num, height_m.den * height_m.den)
      IN  Returned(Quotient(weight.v * squared.den, squared.num))

\* the arguments tried (small, so that the exact products stay in range)
Heights ==
    {IntVal(n) : n \in {-100, -1, 0, 1, 2, 10, 25, 50, 100}}
        \cup {TinyVal, HugeVal, TextVal}
Weights == {IntVal(n) : n \in {-20, -7, -1, 0, 1, 5, 7, 10, 20}} \cup {TextVal}

CalculateBmi(height, weight) ==
    LET res == calculate_bmi(height, weight) IN
    /\ Sequential
    /\ last.op = "__init__"
    /\ last' = Call("calculate_bmi", "", [height |-> height, weight |-> weight], 0,
                    res.exc = NoExc, <<res.value>>, res.exc, NoExc)
    /\ UNCHANGED <<fs, focus, ncorrupt, pc, buf, now, held>>

NextBmi == \E height \in Heights, weight \in Weights : CalculateBmi(height, weight)

SpecBmi == InitProfile /\ [][NextBmi]_vars

(***************************************************************************)
(* calculate_bmr, calculate_tdee, calculate_macros (src/utils/helpers.py). *)
(* A numeric argument is an int, a float with an integral value, a float   *)
(* half above an integer, an int beyond the range of the floats, the       *)
(* smallest positive float, or the largest finite float; an argument that  *)
(* is no number is a text.  The coefficients have three decimals and the   *)
(* ratios two, so results are kept exact as numerator and denominator; the *)
(* rounding of a float product is modelled where it changes an order: at   *)
(* the smallest float, whose multiples are whole, and beyond the largest.  *)
(***************************************************************************)
BigIntVal == [t |-> "bigint", v |-> 0]
MinFloatVal == [t |-> "minfloat", v |-> 0]
MaxFloatVal == [t |-> "maxfloat", v |-> 0]
\* a str argument, and the strings "male" ... stand for the source's literals
StrVal(s) == [t |-> "str", s |-> s]

\* isinstance(x, (int, float))
is_number(x) == x.t \in {"int", "float", "half", "bigint", "minfloat", "maxfloat"}
\* isinstance(x, int)
is_int(x) == x.t \in {"int", "bigint"}
\* isinstance(x, str)
is_str(x) == x.t = "str"

\* twice the value of an argument of ordinary size
doubled(x) == IF x.t = "half" THEN 2 * x.v + 1 ELSE 2 * x.v
ordinary(x) == x.t \in {"int", "float", "half"}
\* x <= 0 and x < 0
nonpositive(x) == ordinary(x) /\ doubled(x) <= 0
negative(x) == ordinary(x) /\ doubled(x) < 0

\* the coefficients of the two branches, in thousandths
male_bmr == [base |-> 88362, weight |-> 13397, height |-> 4799, age |-> 5677]
female_bmr == [base |-> 447593, weight |-> 9247, height |-> 3098, age |-> 4330]

\* calculate_bmr that takes the female branch for every gender
calculate_bmr_one_branch(height, weight, age, gender) ==
    IF ~is_number(height) \/ ~is_number(weight) \/ ~is_int(age) THEN Raised("TypeError")
    ELSE IF nonpositive(height) \/ nonpositive(weight) \/ nonpositive(age)
    THEN Raised("ValueError")
    ELSE IF ~is_str(gender) \/ gender.s \notin {"male", "female"} THEN Raised("ValueError")
    ELSE IF BigIntVal \in {height, weight, age} THEN Raised("OverflowError")
    ELSE Returned(Quotient(2 * female_bmr.base + female_bmr.weight * doubled(weight)
                              + female_bmr.height * doubled(height)
                              - female_bmr.age * doubled(age), 2000))

calculate_bmr(height, weight, age, gender) ==
    IF ~is_number(height) \/ ~is_number(weight) \/ ~is_int(age) THEN Raised("TypeError")
    ELSE IF nonpositive(height) \/ nonpositive(weight) \/ nonpositive(age)
    THEN Raised("ValueError")
    \* gender = str(gender): the text of a value that is no str is neither literal
    ELSE IF ~is_str(gender) \/ gender.s \notin {"male", "female"} THEN Raised("ValueError")
    \* coefficient * <int beyond the floats>: int too large to convert to float
    ELSE IF BigIntVal \in {height, weight, age} THEN Raised("OverflowError")
    ELSE
      LET c == IF gender.s = "male" THEN male_bmr ELSE female_bmr IN
      Returned(Quotient(2 * c.base + c.weight * doubled(weight)
                           + c.height * doubled(height) - c.age * doubled(age), 2000))

BmrHeights == {IntVal(-1), IntVal(0), IntVal(150), HalfVal(175), BigIntVal, TextVal}
BmrWeights == {IntVal(-1), FloatVal(0), IntVal(70), HalfVal(55), BigIntVal, TextVal}
BmrAges == {IntVal(-1), IntVal(0), IntVal(1), IntVal(30), FloatVal(30), HalfVal(30),
            BigIntVal, TextVal}
BmrGenders == {StrVal("male"), StrVal("female"), StrVal("other"), StrVal(""), IntVal(1)}

CalculateBmr(height, weight, age, gender) ==
    LET res == calculate_bmr(height, weight, age, gender) IN
    /\ Sequential
    /\ last.op = "__init__"
    /\ last' = Call("calculate_bmr", "",
                    [height |-> height, weight |-> weight, age |-> age, gender |-> gender],
                    0, res.exc = NoExc, <<res.value>>, res.exc, NoExc)
    /\ UNCHANGED <<fs, focus, ncorrupt, pc, buf, now, held>>

\* a float result: num / den, in units of one (scale "one") or of the smallest
\* positive float (scale "ulp"), or the float inf (scale "inf")
Float(scale, num, den) == [scale |-> scale, num |-> num, den |-> den]

\* the dict of calculate_tdee, in thousandths
multipliers ==
    [level \in valid_levels |->
        CASE level = "sedentary" -> 1200
          [] level = "light" -> 1375
          [] level = "moderate" -> 1550
          [] level = "active" -> 1725
          [] level = "very_active" -> 1900]

\* dict.get(key, default)
get(dict, key, default) == IF key \in DOMAIN dict THEN dict[key] ELSE default

\* the whole number nearest to m thousandths (no multiplier is half-way)
nearest(m) == (m + 500) \div 1000

\* calculate_tdee that refuses a level it does not know
calculate_tdee_strict(bmr, activity_level) ==
    IF ~is_number(bmr) THEN Raised("TypeError")
    ELSE IF ~is_str(activity_level) THEN Raised("TypeError")
    ELSE IF activity_level.s \in BlankStrings THEN Raised("ValueError")
    ELSE IF negative(bmr) THEN Raised("ValueError")
    ELSE IF activity_level.s \notin valid_levels THEN Raised("ValueError")
    ELSE
      LET multiplier == multipliers[activity_level.s] IN
      CASE bmr.t = "bigint" -> Raised("OverflowError")
        [] bmr.t = "minfloat" -> Returned(Float("ulp", nearest(multiplier), 1))
        [] bmr.t = "maxfloat" -> Returned(Float("inf", 1, 1))
        [] OTHER -> Returned(Float("one", doubled(bmr) * multiplier, 2000))

calculate_tdee(bmr, activity_level) ==
    IF ~is_number(bmr) THEN Raised("TypeError")
    ELSE IF ~is_str(activity_level) THEN Raised("TypeError")
    \* activity_level.strip() == ""
    ELSE IF activity_level.s \in BlankStrings THEN Raised("ValueError")
    ELSE IF negative(bmr) THEN Raised("ValueError")
    ELSE
      LET multiplier == get(multipliers, activity_level.s, 1550) IN
      \* bmr * multiplier
      CASE bmr.t = "bigint" -> Raised("OverflowError")
        \* a product below the smallest float is rounded to a multiple of it
        [] bmr.t = "minfloat" -> Returned(Float("ulp", nearest(multiplier), 1))
        \* every multiplier is above 1: the product exceeds the floats, inf
        [] bmr.t = "maxfloat" -> Returned(Float("inf", 1, 1))
        [] OTHER -> Returned(Float("one", doubled(bmr) * multiplier, 2000))

TdeeBmrs ==
    {IntVal(-1), IntVal(0), IntVal(100), HalfVal(10), BigIntVal, MinFloatVal,
     MaxFloatVal, TextVal}
TdeeLevels ==
    {StrVal(l) : l \in valid_levels \cup {"unknown", " moderate", "", " "}}
        \cup {IntVal(3)}

\* a first call, or a second one after it; held keeps the first
Twofold(op) ==
    /\ Sequential
    /\ last.op = "__init__" \/ (last.op = op /\ held = None)
    /\ held' = IF last.op = op THEN last ELSE held

CalculateTdee(bmr, activity_level) ==
    LET res == calculate_tdee(bmr, activity_level) IN
    /\ Twofold("calculate_tdee")
    /\ last' = Call("calculate_tdee", "", [bmr |-> bmr, activity_level |-> activity_level],
                    0, res.exc = NoExc, <<res.value>>, res.exc, NoExc)
    /\ UNCHANGED <<fs, focus, ncorrupt, pc, buf, now>>

\* the dict of calculate_macros, in hundredths
ratios ==
    [goal \in valid_goals |->
        CASE goal = "lose" -> [protein |-> 30, carbs |-> 35, fat |-> 35]
          [] goal = "gain" -> [protein |-> 25, carbs |-> 45, fat |-> 30]
          [] goal = "build_muscle" -> [protein |-> 25, carbs |-> 45, fat |-> 30]
          [] goal = "maintain" -> [protein |-> 20, carbs |-> 50, fat |-> 30]
          [] goal = "health" -> [protein |-> 20, carbs |-> 50, fat |-> 30]]

\* calculate_macros that divides every share by 4
calculate_macros_by_four(calories, goal) ==
    IF ~is_number(calories) THEN Raised("TypeError")
    ELSE IF ~is_str(goal) THEN Raised("TypeError")
    ELSE IF goal.s \in BlankStrings THEN Raised("ValueError")
    ELSE IF negative(calories) THEN Raised("ValueError")
    ELSE
      LET selected_ratios == get(ratios, goal.s, ratios["maintain"]) IN
      IF calories.t = "bigint" THEN Raised("OverflowError")
      ELSE Returned([macro \in DOMAIN selected_ratios |->
                [calories |-> Quotient(doubled(calories) * selected_ratios[macro], 200),
                 grams |-> Quotient(doubled(calories) * selected_ratios[macro], 200 * 4)]])

calculate_macros(calories, goal) ==
    IF ~is_number(calories) THEN Raised("TypeError")
    ELSE IF ~is_str(goal) THEN Raised("TypeError")
    \* goal.strip() == ""
    ELSE IF goal.s \in BlankStrings THEN Raised("ValueError")
    ELSE IF negative(calories) THEN Raised("ValueError")
    ELSE
      LET selected_ratios == get(ratios, goal.s, ratios["maintain"]) IN
      \* calories * ratio
      IF calories.t = "bigint" THEN Raised("OverflowError")
      ELSE Returned([macro \in DOMAIN selected_ratios |->
                LET macro_calories ==
                      Quotient(doubled(calories) * selected_ratios[macro], 200)
                    grams ==
                      Quotient(macro_calories.num,
                               macro_calories.den * (IF macro = "fat" THEN 9 ELSE 4))
                IN  [calories |-> macro_calories, grams |-> grams]])

MacroCalories ==
    {IntVal(-1), IntVal(0), IntVal(1), IntVal(2000), HalfVal(1800), FloatVal(2500),
     BigIntVal, TextVal}
MacroGoals ==
    {StrVal(g) : g \in valid_goals \cup {"unknown", "maintain ", "", " "}}
        \cup {IntVal(1)}

CalculateMacros(calories, goal) ==
    LET res == calculate_macros(calories, goal) IN
    /\ Twofold("calculate_macros")
    /\ last' = Call("calculate_macros", "", [calories |-> calories, goal |-> goal],
                    0, res.exc = NoExc, <<res.value>>, res.exc, NoExc)
    /\ UNCHANGED <<fs, focus, ncorrupt, pc, buf, now>>

NextCalculators ==
    \/ \E height \in BmrHeights, weight \in BmrWeights, age \in BmrAges,
          gender \in BmrGenders : CalculateBmr(height, weight, age, gender)
    \/ \E bmr \in TdeeBmrs, activity_level \in TdeeLevels :
          CalculateTdee(bmr, activity_level)
    \/ \E calories \in MacroCalories, goal \in MacroGoals : CalculateMacros(calories, goal)

SpecCalculators == InitProfile /\ [][NextCalculators]_vars

(***************************************************************************)
(* HealthChatService.get_response (src/services/chat_service.py) and the   *)
(* chat input of the two chat pages (pages/nutrition_consultation.py,      *)
(* pages/training.py).  A chain is what its three methods do when called:  *)
(* raise, or return an object.  A str is its text and its length, a dict   *)
(* the sequence of its items.  The exceptions of the model are subclasses  *)
(* of Exception.  held is st.session_state of the page.                    *)
(***************************************************************************)
\* number of questions a chat history is let grow to
MaxTurns == 2

Text(s, n) == [t |-> "str", s |-> s, len |-> n]
NoneObj == [t |-> "NoneType", s |-> "", len |-> 0]
IntObj == [t |-> "int", s |-> "", len |-> 0]
DictObj(items) == [t |-> "dict", items |-> items]

\* the fixed messages of get_response
invalid_input == Text("invalid input", 20)
no_answer == Text("no answer generated", 13)
unexpected_none == Text("unexpected response format (error): NoneType", 27)
unexpected(response) == Text("unexpected response format: " \o response.t, 20)
apology == Text("apology", 47)

\* what a method of the chain does
Raises == [raises |-> TRUE, result |-> NoneObj]
Gives(x) == [raises |-> FALSE, result |-> x]
Chain(invoke, predict, run) == [invoke |-> invoke, predict |-> predict, run |-> run]

\* chain.<method>(...): on the chain None the attribute access raises
call(chain, method) == IF chain = None THEN Raises ELSE chain[method]

has(d, key) == \E i \in 1..Len(d) : d[i][1] = key
value_of(d, key) == d[CHOOSE i \in 1..Len(d) : d[i][1] = key][2]

\* the processing of what chain.invoke returned
process_response(response) ==
    CASE response.t = "dict" ->
           LET d == response.items
               long == {i \in 1..Len(d) : d[i][2].t = "str" /\ d[i][2].len > 10}
           IN  IF has(d, "response") THEN value_of(d, "response")
               ELSE IF has(d, "text") THEN value_of(d, "text")
               ELSE IF has(d, "output") THEN value_of(d, "output")
               ELSE IF has(d, "content") THEN value_of(d, "content")
               ELSE IF long # {} THEN d[CHOOSE i \in long : \A j \in long : i <= j][2]
               ELSE no_answer
      [] response.t = "str" -> response
      [] response.t = "NoneType" -> unexpected_none
      [] OTHER -> unexpected(response)

\* what get_response gives: the value returned, the methods of the chain it
\* called, in order, and the exception that leaves it
Answer(ret, called) == [ret |-> ret, called |-> called, exc |-> NoExc]

\* not user_input or user_input.strip() == ""
is_blank(user_input) == user_input = NoneObj \/ user_input.s \in BlankStrings

\* get_response that tries run before predict
get_response_run_first(chain, user_input) ==
    IF is_blank(user_input) THEN Answer(invalid_input, <<>>)
    ELSE IF ~call(chain, "invoke").raises
    THEN Answer(process_response(call(chain, "invoke").result), <<"invoke">>)
    ELSE IF ~call(chain, "run").raises
    THEN Answer(call(chain, "run").result, <<"invoke", "run">>)
    ELSE IF ~call(chain, "predict").raises
    THEN Answer(call(chain, "predict").result, <<"invoke", "run", "predict">>)
    ELSE Answer(apology, <<"invoke", "run", "predict">>)

get_response(chain, user_input) ==
    IF is_blank(user_input) THEN Answer(invalid_input, <<>>)
    ELSE
      LET response == call(chain, "invoke") IN
      IF ~response.raises THEN Answer(process_response(response.result), <<"invoke">>)
      ELSE
        \* except Exception: chain.predict
        LET predicted == call(chain, "predict") IN
        IF ~predicted.raises THEN Answer(predicted.result, <<"invoke", "predict">>)
        ELSE
          \* except Exception: chain.run
          LET ran == call(chain, "run") IN
          IF ~ran.raises THEN Answer(ran.result, <<"invoke", "predict", "run">>)
          ELSE Answer(apology, <<"invoke", "predict", "run">>)

InvokeText == Text("answer of invoke", 16)
PredictText == Text("answer of predict", 17)
RunText == Text("answer of run", 13)

\* what invoke returns when it returns
InvokeResults ==
    {DictObj(<<<<"input", Text("q", 1)>>, <<"response", InvokeText>>>>),
     DictObj(<<<<"content", InvokeText>>, <<"output", PredictText>>>>),
     DictObj(<<<<"note", Text("short", 5)>>, <<"answer", InvokeText>>>>),
     DictObj(<<<<"note", Text("short", 5)>>, <<"count", IntObj>>>>),
     DictObj(<<>>), InvokeText, NoneObj, IntObj}

Chains ==
    {Chain(i, p, r) : i \in {Raises} \cup {Gives(x) : x \in InvokeResults},
                      p \in {Raises, Gives(PredictText), Gives(NoneObj)},
                      r \in {Raises, Gives(RunText)}}
        \cup {None}

Questions == {Text("", 0), Text(" ", 1), Text("q1", 9), Text("q2", 30), NoneObj}

\* a call of get_response by any caller
GetResponse(chain, user_input) ==
    LET res == get_response(chain, user_input) IN
    /\ Sequential
    /\ last.op = "__init__"
    /\ last' = Call("get_response", "",
                    [chain |-> chain, user_input |-> user_input, called |-> res.called],
                    0, TRUE, <<res.ret>>, res.exc, NoExc)
    /\ UNCHANGED <<fs, focus, ncorrupt, pc, buf, now, held>>

\* the two chat pages and the session key of their history
ChatPages == {"nutrition_messages", "training_messages"}

Message(role, content) == [role |-> role, content |-> content]

\* the first run of a page: st.session_state.<page>_messages = []
OpenPage(key) ==
    /\ Sequential
    /\ last.op = "__init__"
    /\ held' = [k \in {key} |-> <<>>]
    /\ last' = Call("open_page", key, None, 0, TRUE, <<>>, NoExc, NoExc)
    /\ UNCHANGED <<fs, focus, ncorrupt, pc, buf, now>>

\* the chains a page may hold: what create_*_chain returned, a ConversationChain
\* (invoke returns a dict with the key response) or None
PageChains ==
    {Chain(i, p, r) :
        i \in {Raises, Gives(DictObj(<<<<"input", Text("q", 1)>>, <<"response", InvokeText>>>>))},
        p \in {Raises, Gives(PredictText)}, r \in {Raises, Gives(RunText)}}
        \cup {None}

\* if user_input: ... response = get_response(chain, user_input); append the
\* pair; except Exception: append nothing
ChatInput(key, chain, user_input) ==
    LET res == get_response(chain, user_input) IN
    /\ Sequential
    /\ key \in DOMAIN held
    /\ user_input # NoneObj /\ user_input.s # ""
    /\ Len(held[key]) < 2 * MaxTurns
    /\ held' = IF res.exc = NoExc
               THEN [held EXCEPT ![key] = @ \o <<Message("user", user_input),
                                                Message("assistant", res.ret)>>]
               ELSE held
    /\ last' = Call("chat_input", key,
                    [chain |-> chain, user_input |-> user_input, called |-> res.called],
                    0, TRUE, <<res.ret>>, NoExc, res.exc)
    /\ UNCHANGED <<fs, focus, ncorrupt, pc, buf, now>>

\* the button that clears the history
ClearHistory(key) ==
    /\ Sequential
    /\ key \in DOMAIN held
    /\ held[key] # <<>>
    /\ held' = [held EXCEPT ![key] = <<>>]
    /\ last' = Call("clear_history", key, None, 0, TRUE, <<>>, NoExc, NoExc)
    /\ UNCHANGED <<fs, focus, ncorrupt, pc, buf, now>>

NextChat ==
    \/ \E chain \in Chains, user_input \in Questions : GetResponse(chain, user_input)
    \/ \E key \in ChatPages :
          \/ OpenPage(key)
          \/ \E chain \in PageChains, user_input \in Questions :
                ChatInput(key, chain, user_input)
          \/ ClearHistory(key)

SpecChat == InitProfile /\ [][NextChat]_vars

(***************************************************************************)
(* The delete buttons of the records page (pages/records_management.py).   *)
(* The page shows one row per record that load_workouts (load_nutrition)   *)
(* returned, under the index of the record in that list; the handler of a  *)
(* row's button loads the records again, looks for the first one that      *)
(* agrees with the row in the columns it compares, and deletes by the      *)
(* index it found.  The dates of the model count half minutes.             *)
(***************************************************************************)
\* date.strftime('%Y-%m-%d %H:%M')
strftime(date) == <<"minute", date \div 2>>

abs(x) == IF x < 0 THEN -x ELSE x

\* the comparison of the workout handler, and that of the nutrition handler
same_workout(workout, row) ==
    /\ strftime(workout.date) = strftime(row.date)
    /\ workout.exercise = row.exercise
    /\ workout.duration = row.duration
    /\ workout.calories = row.calories
same_nutrition(nutrition, row) ==
    /\ strftime(nutrition.date) = strftime(row.date)
    /\ nutrition.meal_type = row.meal_type
    /\ abs(nutrition.total_calories - row.total_calories) < 1

\* target_index = None
NoTarget == -1

\* for i, record in enumerate(all_records): if <same>: target_index = i; break
target_index(all_records, row, path) ==
    LET found == {i \in 1..Len(all_records) :
                     IF path = WorkoutFile THEN same_workout(all_records[i], row)
                     ELSE same_nutrition(all_records[i], row)}
    IN  IF found = {} THEN NoTarget
        ELSE (CHOOSE i \in found : \A j \in found : i <= j) - 1

\* what the page has loaded
loaded_records(dir, path) ==
    IF path = WorkoutFile THEN load_workouts(dir, NoFault).ret
    ELSE load_nutrition(dir, NoFault).ret

\* the button of the row shown under display_idx is pressed
PressDelete(path, display_idx) ==
    LET records == loaded_records(fs, path) IN
    /\ Sequential
    /\ focus = path
    /\ display_idx + 1 \in 1..Len(records)
    /\ LET row == records[display_idx + 1]
           target == target_index(loaded_records(fs, path), row, path)
           res == IF target = NoTarget THEN Result(fs, FALSE, NoExc)
                  ELSE IF path = WorkoutFile THEN delete_workout(fs, target, NoFault)
                  ELSE delete_nutrition(fs, target, NoFault)
       IN  /\ fs' = res.fs
           /\ last' = Call("press_delete", path, row, display_idx, res.ret, <<target>>,
                           res.exc, res.caught)
    /\ UNCHANGED <<focus, ncorrupt, pc, buf, now, held>>

\* the records on the page: W1, one that differs from it in the notes, one in
\* the seconds of the date and the intensity, and another workout; N1, one
\* that differs from it in the foods, and another meal
PageWorkouts ==
    {W1, [W1 EXCEPT !.notes = 5], [W1 EXCEPT !.date = 0, !.intensity = "high"], W2}
PageNutrition == {N1, [N1 EXCEPT !.foods = <<Rice, Rice>>], N6}

NextRecords ==
    \/ \E r \in PageWorkouts : SaveWorkout(1, r, NoFault, MaxLen)
    \/ \E r \in PageNutrition : SaveNutrition(1, r, NoFault, MaxLen)
    \/ \E path \in CategoryFiles, display_idx \in 0..MaxLen : PressDelete(path, display_idx)

\* the store after construction, in a behaviour that works on the records
InitRecords == Init /\ focus \in CategoryFiles

SpecRecords == InitRecords /\ [][NextRecords]_vars

DeleteOps == {"delete_workout", "delete_nutrition"}
LoadOps == {"load_workouts", "load_nutrition"}

\* items without its entry at the 0-based position index
Without(items, index) == SubSeq(items, 1, index) \o SubSeq(items, index + 2, Len(items))

\* C1: a delete by index on a category file holding an array of N entries
\* returns True for 0 <= index < N and leaves the other N-1 entries in their
\* order; for any other index it returns False, raises nothing and leaves the
\* file as it was.
C1_DeleteByIndex ==
    [][(last'.op \in DeleteOps /\ fs[last'.path].kind = "array") =>
          LET path == last'.path
              index == last'.idx
              items == fs[path].items
          IN  /\ last'.raised = NoExc
              /\ IF 0 <= index /\ index < Len(items)
                 THEN last'.ok /\ fs'[path] = Array(Without(items, index))
                 ELSE ~last'.ok /\ fs'[path] = fs[path]
              /\ \A f \in FileNames \ {path} : fs'[f] = fs[f]]_vars

\* a delete of index 1 has left the first and the third of three stored workouts
C1_Witness ==
    /\ last.op = "delete_workout" /\ last.idx = 1 /\ last.ok
    /\ fs[WorkoutFile] = Array(<<workout_model_dump(W1), workout_model_dump(W3)>>)

\* C2: a save_workout that returns True adds its record to what load_workouts
\* returns, after the records returned before.
C2_SavedRecordsLoadInOrder ==
    [][(last'.op = "save_workout" /\ last'.ok) =>
          load_workouts(fs', NoFault).ret
              = Append(load_workouts(fs, NoFault).ret, last'.rec)]_vars

\* the kinds of content that are bytes other than JSON text (a blank file
\* holds none)
NotJsonKinds == {"malformed", "undecodable", "merged"}

BackupsOf(path) == {with_suffix(path, s) : s \in {".backup", ".corrupt"}}

\* C3: a load of a category file whose content is not JSON returns the empty
\* sequence, raises nothing, leaves the file holding [] and leaves a backup
\* file holding the content the file had.
C3_LoadOfNonJsonBacksUp ==
    [][(last'.op \in LoadOps /\ fs[last'.path].kind \in NotJsonKinds) =>
          /\ last'.out = <<>> /\ last'.raised = NoExc
          /\ fs'[last'.path] = Array(<<>>)
          /\ \E b \in BackupsOf(last'.path) : fs'[b] = fs[last'.path]]_vars

StoreOps ==
    {"__init__", "save_profile", "delete_profile", "load_profile", "save_workout",
     "load_workouts", "delete_workout", "save_nutrition", "load_nutrition",
     "delete_nutrition"}

\* C4: when a call of the store destroys the non-JSON bytes of a category
\* file, a backup file holds those bytes afterwards.
C4_ResetOnlyAfterBackup ==
    [][\A path \in CategoryFiles :
          (/\ last'.op \in StoreOps
           /\ fs[path].kind \in NotJsonKinds
           /\ fs'[path] # fs[path])
          => \E b \in BackupsOf(path) : fs'[b] = fs[path]]_vars

\* what load_workouts is to return: the stored entries that parse, in order
ParsedWorkouts(items) ==
    LET good == SelectSeq(items, workout_parses) IN
    [k \in 1..Len(good) |-> workout_parse(good[k])]

ParsedNutrition(items) ==
    LET good == SelectSeq(items, nutrition_parses) IN
    [k \in 1..Len(good) |-> nutrition_parse(good[k])]

\* C5: a load of a category file holding an array returns the entries that
\* parse into a record, in stored order, and drops only the others.
C5_LoadDropsOnlyBadEntries ==
    /\ (last.op = "load_workouts" /\ fs[WorkoutFile].kind = "array")
          => last.out = ParsedWorkouts(fs[WorkoutFile].items)
    /\ (last.op = "load_nutrition" /\ fs[NutritionFile].kind = "array")
          => last.out = ParsedNutrition(fs[NutritionFile].items)

\* C6: after every save, load, delete and clear of an initialized store each
\* category file exists and holds a JSON array.
C6_CategoryFileHoldsArray ==
    (last.op \in (StoreOps \ {"__init__"}) \cup {"clear_all_data"})
        => \A path \in CategoryFiles : fs[path].kind = "array"

\* the profiles save_profile is to reject
Rejected(p) == p.type = "None" \/ p.name \in BlankStrings \/ p.age <= 0

\* C8: save_profile of None, of a profile with an empty or blank name or of
\* one with age <= 0 returns False, raises nothing and leaves every file,
\* current_user.json among them, as it was.
C8_InvalidProfileNotSaved ==
    [][(last'.op = "save_profile" /\ Rejected(last'.rec)) =>
          /\ ~last'.ok /\ last'.raised = NoExc
          /\ fs' = fs]_vars

\* a profile of age -5 was refused while current_user.json held the profile
\* saved before, and holds it still
C8_Witness ==
    /\ last.op = "save_profile" /\ last.rec = PNegativeAge /\ ~last.ok
    /\ fs[current_user_file] = Object(profile_data(P2, 0))

\* C9: save_nutrition of a record with no date or with an empty foods list
\* returns False, raises nothing and leaves every file as it was, also when
\* the record passes the validators of NutritionRecord.
C9_UnstorableNutritionRejected ==
    [][(/\ last'.op = "save_nutrition"
        /\ last'.rec.type = "nutrition"
        /\ (last'.rec.date = NoDate \/ last'.rec.foods = <<>>)) =>
          /\ ~last'.ok /\ last'.raised = NoExc
          /\ fs' = fs]_vars

\* a record with no foods that NutritionRecord accepts was refused while
\* nutrition.json held a record, and holds it still
C9_Witness ==
    /\ last.op = "save_nutrition" /\ last.rec.type = "nutrition"
    /\ last.rec.foods = <<>> /\ validate_nutrition(last.rec)
    /\ ~last.ok
    /\ fs[NutritionFile] = Array(<<nutrition_model_dump(N1)>>)

SaveDeleteOps ==
    {"save_profile", "save_workout", "save_nutrition", "delete_workout",
     "delete_nutrition", "delete_profile"}

C7_LastWriteWins ==
    [][/\ \A i \in Instances :
            (pc[i] = "opened" /\ pc'[i] = "idle")
                => fs'[buf[i].path] = buf[i].content
       /\ (last.op = "save_profile" /\ last'.op = "load_profile")
                => last'.out = <<last.rec>>]_vars

\* C11: an initialization that completes on a directory whose category files
\* are each absent or hold a JSON array creates the absent ones holding [],
\* leaves the others holding what they held, and touches no other file.
C11_InitializationIdempotent ==
    [][(/\ last'.op = "__init__" /\ last'.raised = NoExc
        /\ \A path \in CategoryFiles : fs[path].kind \in {"absent", "array"}) =>
          /\ \A path \in CategoryFiles :
                fs'[path] = IF exists(fs, path) THEN fs[path] ELSE Array(<<>>)
          /\ \A f \in FileNames \ CategoryFiles : fs'[f] = fs[f]]_vars

\* an initialization has run on a directory whose workouts.json holds two
\* records, and the file holds them still
C11_Witness ==
    /\ last.op = "__init__" /\ last.raised = NoExc
    /\ fs[WorkoutFile] = Array(<<workout_model_dump(W1), workout_model_dump(W2)>>)

\* a path of the store treated the content of path as corrupt: it replaced it
Replaced(after, path) == after[path] # fs[path]

\* the content path held is kept in a backup file, and path holds []
BackedUpAndReset(after, path) ==
    /\ after[path] = Array(<<>>)
    /\ \E b \in BackupsOf(path) : after[b] = fs[path]

\* C12: for every content a category file can hold, the read path
\* (_load_json_safely) and initialization (_ensure_json_files) agree on
\* whether the content is corrupt, and when it is both leave a backup of it
\* and the file holding [].
C12_LazyRecoveryAsInitialization ==
    \A path \in CategoryFiles :
        exists(fs, path) =>
            LET init == ensure_json_file(fs, path, NoFault).fs
                read == load_json_safely(fs, path, NoFault).fs
            IN  /\ Replaced(init, path) <=> Replaced(read, path)
                /\ Replaced(init, path) =>
                      BackedUpAndReset(init, path) /\ BackedUpAndReset(read, path)

\* the contents of current_user.json that load_profile cannot turn into a
\* profile: no file, no JSON, JSON that is no object, an object the validators
\* of UserProfile refuse
Unloadable(content) ==
    \/ content.kind # "object"
    \/ ~validate_profile(content.items[1])

\* equal in every field but updated_at
SameButUpdatedAt(p, q) == [p EXCEPT !.updated_at = 0] = [q EXCEPT !.updated_at = 0]

\* C13: load_profile raises nothing and changes no file; it returns None when
\* current_user.json is absent, empty, no JSON or data the validators refuse,
\* and otherwise the profile the file holds, which after a successful
\* save_profile of a valid profile is that profile as it was saved.
C13_LoadProfileAbsentOrLastSaved ==
    [][last'.op = "load_profile" =>
          LET content == fs[current_user_file]  out == last'.out[1] IN
          /\ last'.raised = NoExc
          /\ fs' = fs
          /\ Unloadable(content) => out = None
          /\ ~Unloadable(content) =>
                /\ out.type = "profile"
                /\ profile_data(out, out.updated_at) = content.items[1]
          /\ (last.op = "save_profile" /\ last.ok /\ validate_profile(last.rec)) =>
                /\ out # None
                /\ SameButUpdatedAt(out, last.rec)
                /\ out.updated_at <= now]_vars

\* a load has returned a profile that was saved after the clock had advanced
\* past its creation
C13_Witness ==
    /\ last.op = "load_profile"
    /\ last.out[1].type = "profile"
    /\ last.out[1].updated_at > last.out[1].created_at

\* every entry stored in workouts.json parses into a WorkoutRecord
AllParse(content) ==
    /\ content.kind = "array"
    /\ \A k \in 1..Len(content.items) : workout_parses(content.items[k])

FlatKeys == {"name", "calories", "protein", "carbs", "fat"}

\* C15: what save_nutrition stores for a record NutritionRecord accepts is its
\* model_dump, in which every foods entry, given as a FoodItem or as a
\* key/value map, is a map with exactly the keys name, calories, protein,
\* carbs, fat.
C15_FoodsSerializeFlat ==
    (last.op = "save_nutrition" /\ last.ok /\ validate_nutrition(last.rec)) =>
        LET items == fs[NutritionFile].items
            stored == items[Len(items)]
        IN  /\ stored = nutrition_model_dump(last.rec)
            /\ \A k \in 1..Len(stored.foods) :
                  /\ stored.foods[k].type = "dict"
                  /\ DOMAIN stored.foods[k].fields = FlatKeys

\* the profile object stored in current_user.json
StoredProfile(dir) == dir[current_user_file].items[1]

\* C16: an assignment to a field of a profile sets its updated_at to the time
\* of the assignment; a successful save_profile stores the profile with
\* updated_at equal to the time of the save and with the created_at the
\* profile was made with; and the stored updated_at never decreases from one
\* save to the next.
C16_UpdatedAtOnEveryMutation ==
    [][/\ (last'.op = "setattr" /\ held' # held) => held'.updated_at = now
       /\ (last'.op = "save_profile" /\ last'.ok /\ last' # last) =>
             /\ StoredProfile(fs').updated_at = isoformat(now)
             /\ StoredProfile(fs').created_at = isoformat(last'.rec.created_at)
             /\ (fs[current_user_file].kind = "object" /\ last.op = "save_profile") =>
                   fromisoformat(StoredProfile(fs').updated_at)
                       >= fromisoformat(StoredProfile(fs).updated_at)]_vars

\* an argument that is a number: an int or a float other than nan
IsNumber(x) == x.t \in {"int", "float", "half"}
\* an argument that is an integer
IsInteger(x) == x.t \in {"int", "float"}
\* twice the value of an argument that is a number
Twice(x) == 2 * x.v + (IF x.t = "half" THEN 1 ELSE 0)

\* the arguments the claim lets UserProfile accept
ProfileDomain(d) ==
    /\ d.name \notin BlankStrings
    /\ IsInteger(d.age) /\ d.age.v >= 1 /\ d.age.v <= 150
    /\ d.gender \in valid_genders
    /\ IsNumber(d.height) /\ Twice(d.height) >= 100 /\ Twice(d.height) <= 600
    /\ IsNumber(d.weight) /\ Twice(d.weight) > 0 /\ Twice(d.weight) <= 1000
    /\ d.activity_level \in valid_levels
    /\ d.goal \in valid_goals

\* C17: UserProfile(**data) returns an object exactly when name is not blank,
\* age is an integer in 1..150, gender is one of the two values, height is a
\* number in [50, 300], weight a number in (0, 500], activity_level and goal
\* are among their five values; for every other data it raises
\* ValidationError.
C17_UserProfileDomain ==
    last.op = "UserProfile(**data)" =>
        /\ last.ok <=> ProfileDomain(last.rec)
        /\ ~last.ok => last.raised = "ValidationError"

\* the arguments the claim lets WorkoutRecord accept
WorkoutDomain(d) ==
    /\ d.exercise \notin BlankStrings
    /\ IsInteger(d.duration) /\ d.duration.v >= 1 /\ d.duration.v <= 600
    /\ IsInteger(d.calories) /\ d.calories.v >= 0 /\ d.calories.v <= 10000
    /\ d.intensity \in valid_intensities
    /\ (d.notes = NoNotes \/ d.notes <= 500)

\* C18: WorkoutRecord(**data) returns an object exactly when exercise is not
\* blank, duration is an integer in 1..600, calories an integer in 0..10000,
\* intensity one of the three values and notes None or of at most 500
\* characters, whatever the date; for every other data it raises
\* ValidationError.
C18_WorkoutRecordDomain ==
    last.op = "WorkoutRecord(**data)" =>
        /\ last.ok <=> WorkoutDomain(last.rec)
        /\ ~last.ok => last.raised = "ValidationError"

\* a foods entry with a name that is not empty and calories, protein, carbs,
\* fat that are not negative
GoodFood(food) ==
    /\ DOMAIN food.fields = FoodItemFields
    /\ food.fields.name # ""
    /\ \A key \in FoodItemFields \ {"name"} : food.fields[key] >= 0

\* C19: NutritionRecord(**data) raises when the date is after the current
\* time, the meal_type is none of the five values or total_calories is
\* negative, and returns an object otherwise, also for an empty foods list;
\* every foods entry of the object has a non-empty name and non-negative
\* calories, protein, carbs and fat.
C19_NutritionRecordDomain ==
    last.op = "NutritionRecord(**data)" =>
        LET d == last.rec IN
        /\ ~last.ok <=>
              \/ d.date > Now
              \/ d.meal_type \notin valid_meal_types
              \/ (IsNumber(d.total_calories) /\ Twice(d.total_calories) < 0)
        /\ last.ok =>
              \A k \in 1..Len(last.out[1].foods) : GoodFood(last.out[1].foods[k])

\* a positive height: a positive int, or one of the two extreme floats
Positive(x) == x.t \in {"tiny", "huge"} \/ (x.t = "int" /\ x.v > 0)

\* the value returned is weight / (height / 100) ^ 2, with its sign
IsBmiOf(value, height, weight) ==
    /\ value.den > 0
    /\ value.num * height * height = weight * 100 * 100 * value.den

above_zero(x) == is_number(x) /\ ~nonpositive(x)

\* the Harris-Benedict value of the branch, in two-thousandths
HarrisBenedict(height, weight, age, gender) ==
    IF gender = "male"
    THEN 2 * 88362 + 13397 * doubled(weight) + 4799 * doubled(height) - 5677 * doubled(age)
    ELSE 2 * 447593 + 9247 * doubled(weight) + 3098 * doubled(height) - 4330 * doubled(age)

Recognized(gender) == is_str(gender) /\ gender.s \in {"male", "female"}

\* C21 as stated: for numbers, calculate_bmr returns the Harris-Benedict value
\* of the gender's branch for every positive height, weight and age and a
\* recognized gender, and raises ValueError whenever one of the three is <= 0
\* or the gender is not recognized.
C21_BmrForEveryPositiveArgument ==
    LET a == last.rec IN
    (/\ last.op = "calculate_bmr"
     /\ is_number(a.height) /\ is_number(a.weight) /\ is_number(a.age)) =>
        IF above_zero(a.height) /\ above_zero(a.weight) /\ above_zero(a.age)
              /\ Recognized(a.gender)
        THEN /\ last.raised = NoExc
             /\ last.out[1] = Quotient(HarrisBenedict(a.height, a.weight, a.age, a.gender.s),
                                       2000)
        ELSE last.raised = "ValueError"

\* C21, amended: with height and weight numbers and age an int (a float age
\* raises TypeError, whatever the other arguments), calculate_bmr raises
\* ValueError whenever one of the three is <= 0 or the gender is not
\* recognized; otherwise it raises OverflowError when one of the three is an
\* int beyond the range of the floats, and returns the Harris-Benedict value
\* of the gender's branch for every other positive height, weight and age.
C21_BmrForPositiveConvertibleArguments ==
    LET a == last.rec IN
    (/\ last.op = "calculate_bmr"
     /\ is_number(a.height) /\ is_number(a.weight) /\ is_number(a.age)) =>
        CASE ~is_int(a.age) -> last.raised = "TypeError"
          [] is_int(a.age) /\ ~(/\ above_zero(a.height) /\ above_zero(a.weight)
                                /\ above_zero(a.age) /\ Recognized(a.gender)) ->
               last.raised = "ValueError"
          [] OTHER ->
               IF BigIntVal \in {a.height, a.weight, a.age}
               THEN last.raised = "OverflowError"
               ELSE /\ last.raised = NoExc
                    /\ last.out[1] =
                         Quotient(HarrisBenedict(a.height, a.weight, a.age, a.gender.s), 2000)

\* calculate_bmr(175.5, 70, 30, male) has returned 1698.0665
C21_Witness ==
    /\ last.op = "calculate_bmr"
    /\ last.rec = [height |-> HalfVal(175), weight |-> IntVal(70), age |-> IntVal(30),
                   gender |-> StrVal("male")]
    /\ last.raised = NoExc
    /\ last.out[1] = Quotient(3396133, 2000)

\* the five levels in increasing order of activity
LevelRank ==
    [level \in valid_levels |->
        CASE level = "sedentary" -> 1 [] level = "light" -> 2 [] level = "moderate" -> 3
          [] level = "active" -> 4 [] level = "very_active" -> 5]

\* the multiplier the level is to have, in thousandths
StatedMultiplier(level) ==
    CASE level = "sedentary" -> 1200 [] level = "light" -> 1375
      [] level = "moderate" -> 1550 [] level = "active" -> 1725
      [] level = "very_active" -> 1900 [] OTHER -> 1550

\* a < b for two float results
less(a, b) ==
    \/ a.scale # "inf" /\ b.scale = "inf"
    \/ a.scale = b.scale /\ a.scale # "inf" /\ a.num * b.den < b.num * a.den

\* a call of calculate_tdee with a number >= 0 and a str
TdeeCall(c) ==
    /\ c # None /\ c.op = "calculate_tdee"
    /\ is_number(c.rec.bmr) /\ ~negative(c.rec.bmr) /\ is_str(c.rec.activity_level)

\* the product bmr * multiplier for a bmr of ordinary size
IsTdeeOf(c) ==
    ordinary(c.rec.bmr) =>
        c.out[1] = Float("one", doubled(c.rec.bmr) * StatedMultiplier(c.rec.activity_level.s),
                         2000)

\* two calls in a row with the same bmr > 0, both returned
SameBmrTwice ==
    /\ TdeeCall(held) /\ TdeeCall(last)
    /\ held.rec.bmr = last.rec.bmr /\ above_zero(last.rec.bmr)
    /\ held.raised = NoExc /\ last.raised = NoExc

\* C22 as stated: calculate_tdee returns bmr times the multiplier of the
\* level, with 1.55 for every other non-empty level; for a fixed bmr > 0 the
\* result strictly increases across the five levels, and an unrecognized
\* level gives the result of the moderate level.
C22_TdeeForEveryNonEmptyLevel ==
    /\ (TdeeCall(last) /\ last.rec.activity_level.s # "") =>
          last.raised = NoExc /\ IsTdeeOf(last)
    /\ SameBmrTwice =>
          LET first == held.rec.activity_level.s  second == last.rec.activity_level.s IN
          /\ (first \in valid_levels /\ second \in valid_levels
                /\ LevelRank[first] < LevelRank[second]) => less(held.out[1], last.out[1])
          /\ (first = "moderate" /\ second \notin valid_levels) => last.out[1] = held.out[1]

\* C22, amended: for a bmr >= 0 and a str level, calculate_tdee raises
\* ValueError for a level that is empty or white space only, otherwise
\* OverflowError for an int bmr beyond the range of the floats, and otherwise
\* returns the float product of bmr and the multiplier of the level, 1.55
\* for every level that is not one of the five.  For a fixed bmr > 0 the
\* result never decreases across the five levels and strictly increases
\* where bmr is of ordinary size (not for the smallest positive float, whose
\* products round to the same float, and not where the products exceed the
\* largest float and are all inf); an unrecognized level gives the result of
\* the moderate level.
C22_TdeeForNonBlankLevels ==
    /\ TdeeCall(last) =>
          CASE last.rec.activity_level.s \in BlankStrings -> last.raised = "ValueError"
            [] last.rec.activity_level.s \notin BlankStrings /\ last.rec.bmr = BigIntVal ->
                 last.raised = "OverflowError"
            [] OTHER -> last.raised = NoExc /\ IsTdeeOf(last)
    /\ SameBmrTwice =>
          LET first == held.rec.activity_level.s  second == last.rec.activity_level.s IN
          /\ (first \in valid_levels /\ second \in valid_levels
                /\ LevelRank[first] < LevelRank[second]) =>
                   /\ ~less(last.out[1], held.out[1])
                   /\ ordinary(last.rec.bmr) => less(held.out[1], last.out[1])
          /\ (first = "moderate" /\ second \notin valid_levels) => last.out[1] = held.out[1]

\* calculate_tdee(100, moderate) and then calculate_tdee(100, unknown) have
\* both returned 155
C22_Witness ==
    /\ SameBmrTwice
    /\ held.rec = [bmr |-> IntVal(100), activity_level |-> StrVal("moderate")]
    /\ last.rec = [bmr |-> IntVal(100), activity_level |-> StrVal("unknown")]
    /\ held.out[1] = Float("one", 310000, 2000)
    /\ last.out[1] = held.out[1]

\* a call of calculate_macros with a number >= 0 and a str
MacroCall(c) ==
    /\ c # None /\ c.op = "calculate_macros"
    /\ is_number(c.rec.calories) /\ ~negative(c.rec.calories) /\ is_str(c.rec.goal)

\* q is the part-th of share
PartOf(q, share, part) == q.den > 0 /\ q.num * share.den * part = share.num * q.den

\* the three calorie shares sum to the calories given, protein and carb grams
\* are a quarter and fat grams a ninth of their share, and the lose-weight
\* goal has the shares 30/35/35
IsMacrosOf(c) ==
    LET m == c.out[1]  twice == doubled(c.rec.calories) IN
    /\ DOMAIN m = {"protein", "carbs", "fat"}
    /\ \A k \in DOMAIN m : m[k].calories.den = 200
    /\ m.protein.calories.num + m.carbs.calories.num + m.fat.calories.num = 100 * twice
    /\ PartOf(m.protein.grams, m.protein.calories, 4)
    /\ PartOf(m.carbs.grams, m.carbs.calories, 4)
    /\ PartOf(m.fat.grams, m.fat.calories, 9)
    /\ c.rec.goal.s = "lose" =>
          /\ m.protein.calories.num = 30 * twice
          /\ m.carbs.calories.num = 35 * twice
          /\ m.fat.calories.num = 35 * twice

\* the maintain goal, then an unrecognized goal, with the same calories
MaintainThenUnrecognized ==
    /\ MacroCall(held) /\ MacroCall(last)
    /\ held.rec.calories = last.rec.calories
    /\ held.rec.goal.s = "maintain" /\ held.raised = NoExc
    /\ last.rec.goal.s \notin valid_goals

\* C23 as stated: for every calories >= 0 and every non-empty goal
\* calculate_macros returns shares that sum to the calories, with grams of
\* share / 4 (protein, carbs) and share / 9 (fat) and the 30/35/35 split for
\* the lose-weight goal; every unrecognized goal yields the result of the
\* maintain goal.
C23_MacrosForEveryNonEmptyGoal ==
    /\ (MacroCall(last) /\ last.rec.goal.s # "") => last.raised = NoExc /\ IsMacrosOf(last)
    /\ (MaintainThenUnrecognized /\ last.rec.goal.s # "") =>
          last.raised = NoExc /\ last.out = held.out

\* C23, amended: for a calories >= 0 and a str goal, calculate_macros raises
\* ValueError for a goal that is empty or white space only, otherwise
\* OverflowError for an int calories beyond the range of the floats, and
\* otherwise returns shares that sum to the calories, with grams of share / 4
\* (protein, carbs) and share / 9 (fat) and the 30/35/35 split for the
\* lose-weight goal; every unrecognized goal that is not blank yields the
\* result of the maintain goal.
C23_MacrosForNonBlankGoals ==
    /\ MacroCall(last) =>
          CASE last.rec.goal.s \in BlankStrings -> last.raised = "ValueError"
            [] last.rec.goal.s \notin BlankStrings /\ last.rec.calories = BigIntVal ->
                 last.raised = "OverflowError"
            [] OTHER -> last.raised = NoExc /\ IsMacrosOf(last)
    /\ (MaintainThenUnrecognized /\ last.rec.goal.s \notin BlankStrings) =>
          last.raised = NoExc /\ last.out = held.out

\* calculate_macros(2000, lose) has returned 600 kcal / 150 g of protein,
\* 700 kcal / 175 g of carbs and 700 kcal / 77.8 g of fat
C23_Witness ==
    /\ MacroCall(last) /\ last.raised = NoExc
    /\ last.rec = [calories |-> IntVal(2000), goal |-> StrVal("lose")]
    /\ last.out[1].protein = [calories |-> Quotient(120000, 200), grams |-> Quotient(120000, 800)]
    /\ last.out[1].carbs = [calories |-> Quotient(140000, 200), grams |-> Quotient(140000, 800)]
    /\ last.out[1].fat = [calories |-> Quotient(140000, 200), grams |-> Quotient(140000, 1800)]

\* a call of get_response, by a page or by any other caller
GetResponseCall == last.op \in {"get_response", "chat_input"}

Order == <<"invoke", "predict", "run">>

\* the methods were called in the fixed order, a later one only after every
\* earlier one raised, and none after one that returned
CalledInOrder ==
    LET c == last.rec IN
    /\ Len(c.called) \in 1..3
    /\ \A k \in 1..Len(c.called) :
          /\ c.called[k] = Order[k]
          /\ k < Len(c.called) => call(c.chain, Order[k]).raises
    /\ Len(c.called) < 3 => ~call(c.chain, Order[Len(c.called)]).raises

\* the text a result carries: a str is its own text, a dict carries the value
\* of the first of the keys response, text, output, content it has, or else
\* its first str value of more than 10 characters
Carries(x) ==
    \/ x.t = "str"
    \/ /\ x.t = "dict"
       /\ \E i \in 1..Len(x.items) :
             \/ x.items[i][1] \in {"response", "text", "output", "content"}
             \/ x.items[i][2].t = "str" /\ x.items[i][2].len > 10
Carried(x) ==
    IF x.t = "str" THEN x
    ELSE LET d == x.items
             Key(k) == \E i \in 1..Len(d) : d[i][1] = k
             At(k) == d[CHOOSE i \in 1..Len(d) : d[i][1] = k][2]
             first == CHOOSE i \in 1..Len(d) :
                        /\ d[i][2].t = "str" /\ d[i][2].len > 10
                        /\ \A j \in 1..(i - 1) : ~(d[j][2].t = "str" /\ d[j][2].len > 10)
         IN  CASE Key("response") -> At("response")
               [] ~Key("response") /\ Key("text") -> At("text")
               [] ~Key("response") /\ ~Key("text") /\ Key("output") -> At("output")
               [] ~Key("response") /\ ~Key("text") /\ ~Key("output") /\ Key("content") ->
                    At("content")
               [] OTHER -> d[first][2]

\* C24 as stated: get_response tries invoke, predict, run in this order, a
\* later method only after every earlier one raised; it returns the result
\* of the first method that does not raise (for the dict of invoke, the text
\* it carries), the apology when all three raise, never raises, and for an
\* empty or blank input returns the invalid-input message without a call.
C24_FirstResultInFixedOrder ==
    GetResponseCall =>
        LET c == last.rec
            n == Len(c.called)
            ret == last.out[1]
        IN  /\ last.raised = NoExc /\ last.caught = NoExc
            /\ IF is_blank(c.user_input) THEN ret = invalid_input /\ c.called = <<>>
               ELSE /\ CalledInOrder
                    /\ IF call(c.chain, Order[n]).raises THEN ret = apology
                       ELSE LET result == call(c.chain, Order[n]).result IN
                            ret = IF Carries(result) THEN Carried(result) ELSE result

\* C24, amended: as stated, except for what is returned when invoke does
\* not raise: the text its result carries, and a fixed message, never the
\* result itself, when the result carries none (the no-answer message for a
\* dict, the unexpected-format message with the type's name for None and
\* for any other object).  What predict or run returns is returned as it is.
C24_FirstAnswerInFixedOrder ==
    GetResponseCall =>
        LET c == last.rec
            n == Len(c.called)
            ret == last.out[1]
        IN  /\ last.raised = NoExc /\ last.caught = NoExc
            /\ IF is_blank(c.user_input) THEN ret = invalid_input /\ c.called = <<>>
               ELSE /\ CalledInOrder
                    /\ IF call(c.chain, Order[n]).raises THEN ret = apology
                       ELSE LET result == call(c.chain, Order[n]).result IN
                            CASE n > 1 -> ret = result
                              [] n = 1 /\ Carries(result) -> ret = Carried(result)
                              [] n = 1 /\ ~Carries(result) /\ result.t = "dict" ->
                                   ret = no_answer
                              [] n = 1 /\ ~Carries(result) /\ result.t = "NoneType" ->
                                   ret = unexpected_none
                              [] OTHER -> ret = Text("unexpected response format: int", 20)

\* invoke and predict have raised and get_response has returned what run
\* returned
C24_Witness ==
    /\ last.op = "get_response"
    /\ last.rec.called = <<"invoke", "predict", "run">>
    /\ last.rec.chain # None
    /\ last.rec.chain.invoke.raises /\ last.rec.chain.predict.raises
    /\ ~last.rec.chain.run.raises
    /\ last.out[1] = RunText

\* the history is a sequence of user/assistant pairs
Pairs(history) ==
    /\ Len(history) % 2 = 0
    /\ \A k \in 1..Len(history) :
          history[k].role = IF k % 2 = 1 THEN "user" ELSE "assistant"

\* the model call of the question failed: invoke, predict and run all raised
ModelCallFailed(c) ==
    /\ ~is_blank(c.user_input)
    /\ \A k \in 1..3 : call(c.chain, Order[k]).raises

\* C25: a question on a chat page whose model call failed adds nothing to the
\* page's history, any other question appends its user/assistant pair at the
\* end, and the history always consists of user/assistant pairs.
C25_FailedCallAddsNothing ==
    [][last'.op = "chat_input" =>
          LET key == last'.path  c == last'.rec IN
          /\ Pairs(held'[key])
          /\ IF ModelCallFailed(c) THEN held'[key] = held[key]
             ELSE held'[key] = held[key] \o <<Message("user", c.user_input),
                                              Message("assistant", last'.out[1])>>]_vars

\* C26: a load returns exactly one record per entry of the stored array,
\* whatever records the successful saves stored, records changed after
\* their construction included.
C26_OneRecordPerStoredEntry ==
    /\ (last.op = "load_workouts" /\ fs[WorkoutFile].kind = "array")
          => Len(last.out) = Len(fs[WorkoutFile].items)
    /\ (last.op = "load_nutrition" /\ fs[NutritionFile].kind = "array")
          => Len(last.out) = Len(fs[NutritionFile].items)

\* C27: a save or delete that returns False because an exception was caught
\* during the call leaves the file it works on as it was before the call.
C27_FailedCallLeavesFile ==
    [][(/\ last'.op \in {"save_workout", "save_nutrition", "delete_workout",
                        "delete_nutrition", "save_profile"}
        /\ ~last'.ok /\ last'.caught # NoExc) => fs'[last'.path] = fs[last'.path]]_vars

\* a record a save is to store: one its class accepts and, for nutrition,
\* one with a date and with foods
Storable(rec) ==
    \/ rec.type = "workout" /\ validate_workout(rec)
    \/ /\ rec.type = "nutrition" /\ validate_nutrition(rec)
       /\ rec.foods # <<>>

SaveOf == [load_workouts |-> "save_workout", load_nutrition |-> "save_nutrition"]

\* C28: whatever a category file holds, a save of a storable record right
\* after a load of the category returns True, and the load after a
\* successful save of a storable record returns the record.
C28_WritableAfterOneLoad ==
    [][/\ (/\ last.op \in LoadOps /\ last'.op = SaveOf[last.op]
           /\ Storable(last'.rec)) => last'.ok
       /\ (/\ last'.op \in LoadOps /\ last.op = SaveOf[last'.op]
           /\ Storable(last.rec) /\ last.ok) =>
             \E k \in 1..Len(last'.out) :
                 /\ last'.out[k].date = last.rec.date
                 /\ last'.out[k].type = last.rec.type]_vars

\* C29: the delete button of a displayed entry removes exactly that stored
\* record and no other: the delete succeeds and leaves the stored array
\* without the entry at the position of the row the user selected.
C29_DeleteButtonRemovesSelected ==
    [][last'.op = "press_delete" =>
          /\ last'.ok
          /\ fs'[last'.path].items = Without(fs[last'.path].items, last'.idx)]_vars

====
